---- MODULE Spec2Model ----
(***************************************************************************)
(* A model of aihack's context subsystem: the segment classifier, the      *)
(* weighting strategy and the context optimizer (core/context.py and       *)
(* core/context/context_engine.py), the session persistence store          *)
(* (core/context.py), the quality measurer with its result cache           *)
(* (core/context/context_measurement.py) and the live context manager      *)
(* (core/context/live_context_manager.py).                                 *)
(*                                                                         *)
(* Python strings are TLA+ strings; a float that the code only compares    *)
(* or averages is an exact rational <<numerator, denominator>>, and an     *)
(* importance weight is held in tenths (1.0 is 10).                        *)
(***************************************************************************)
EXTENDS Integers, Sequences, FiniteSets, TLC

VARIABLES
    optCall,     \* the optimizer call made last: operation and arguments
    optRet,      \* what that call returned or raised
    sessions,    \* BasicSessionManager.sessions: session id -> record
    file,        \* the content of sessions.json
    now,         \* the clock datetime.now() reads, in days
    storeCall,   \* the store call made last, with the sessions before it
    storeRet,    \* what that call returned or raised
    lastSave,    \* history: session id -> the (context, model) saved last
    running,     \* whether a process holds a constructed BasicSessionManager
    peerSessions, \* the sessions of a second store on the same sessions.json
    quality_cache, \* ContextQualityMeasurer.quality_cache, in insertion order
    measCall,    \* the measurer call made last, with the cache before it
    measRet,     \* what that call returned
    inserts,     \* history: how many entries the cache was ever given
    insertedAt,  \* history: cache key -> which insertion gave it last
    conversations, \* LiveContextManager.conversations: id -> state
    liveConfig,  \* max_context_length and optimization_threshold
    liveCall,    \* the manager call made last, with the sessions before it
    liveRet,     \* what that call returned or raised
    liveCalls,   \* how many calls the manager has served
    context_events, \* the rows ContextDatabase holds, oldest first
    learnCall,   \* the analytics call made last
    learnRet,    \* what that call returned or raised
    context_manager, \* the fields of the BasicCLIContextManager in use
    model_manager, \* the fields of the ModelManager of a SessionService
    sessCall,    \* the session call made last, with the state before it
    sessRet      \* what that call returned or raised

optVars == <<optCall, optRet>>
storeVars ==
    <<sessions, file, now, storeCall, storeRet, lastSave, running, peerSessions>>
measureVars == <<quality_cache, measCall, measRet, inserts, insertedAt>>
liveVars == <<conversations, liveConfig, liveCall, liveRet, liveCalls>>
learnVars == <<context_events, learnCall, learnRet>>
sessVars == <<context_manager, model_manager, sessCall, sessRet>>
vars == <<optVars, storeVars, measureVars, liveVars, learnVars, sessVars>>

\* what an operation of one component leaves alone: the other components
besideOpt == <<storeVars, measureVars, liveVars, learnVars, sessVars>>
besideStore == <<optVars, measureVars, liveVars, learnVars, sessVars>>
besideMeasure == <<optVars, storeVars, liveVars, learnVars, sessVars>>
besideLive == <<optVars, storeVars, measureVars, learnVars, sessVars>>
besideLearn == <<optVars, storeVars, measureVars, liveVars, sessVars>>
besideSession == <<optVars, measureVars, liveVars, learnVars>>

---------------------------------------------------------------------------
(* Bounds of the model *)

MaxLines == 3      \* lines of a conversation handed to the optimizer
MaxSegs == 5       \* segments of a list handed to optimize_context directly
MaxBudget == 6     \* the small max_length values tried are 0..MaxBudget
MaxTicks == 1      \* days the clock advances while a store is in use
MaxScoredInserts == 2    \* cache insertions while the scores are examined
MaxStreamInserts == 103  \* cache insertions of a long run of calls
MaxLiveCalls == 3        \* calls served by one live context manager
SmallContextLength == 12 \* max_context_length of a manager that optimizes early
SmallThreshold == 3      \* its optimization_threshold
TinyContextLength == 2   \* max_context_length of a manager that optimizes on read
TinyThreshold == 4       \* its optimization_threshold
MaxEvents == 2           \* events stored in one analytics database
MaxContextChars == 16    \* characters past which a CLI context takes no message

---------------------------------------------------------------------------
(* Python's str operations *)

CharAt(s, i) == SubSeq(s, i, i)

\* the lower case of the ASCII capitals
LowerOf ==
    "A" :> "a" @@ "B" :> "b" @@ "C" :> "c" @@ "D" :> "d" @@ "E" :> "e" @@
    "F" :> "f" @@ "G" :> "g" @@ "H" :> "h" @@ "I" :> "i" @@ "J" :> "j" @@
    "K" :> "k" @@ "L" :> "l" @@ "M" :> "m" @@ "N" :> "n" @@ "O" :> "o" @@
    "P" :> "p" @@ "Q" :> "q" @@ "R" :> "r" @@ "S" :> "s" @@ "T" :> "t" @@
    "U" :> "u" @@ "V" :> "v" @@ "W" :> "w" @@ "X" :> "x" @@ "Y" :> "y" @@
    "Z" :> "z"

lower_char(c) == IF c \in DOMAIN LowerOf THEN LowerOf[c] ELSE c

RECURSIVE lower(_)
\* s.lower(), a character at a time (by halves, to keep the evaluation shallow)
lower(s) ==
    IF Len(s) = 0 THEN ""
    ELSE IF Len(s) = 1 THEN lower_char(s)
    ELSE LET h == Len(s) \div 2
         IN  lower(SubSeq(s, 1, h)) \o lower(SubSeq(s, h + 1, Len(s)))

\* kw in s
Contains(s, kw) ==
    \E i \in 0..(Len(s) - Len(kw)) : SubSeq(s, i + 1, i + Len(kw)) = kw

Whitespace == {" ", "\t", "\n", "\r", "\f"}

\* bool(line.strip())
has_text(line) == \E i \in 1..Len(line) : CharAt(line, i) \notin Whitespace

RECURSIVE split(_)
\* s.split("\n")
split(s) ==
    LET breaks == {i \in 1..Len(s) : CharAt(s, i) = "\n"}
    IN  IF breaks = {} THEN <<s>>
        ELSE LET k == CHOOSE i \in breaks : \A j \in breaks : i <= j
             IN  <<SubSeq(s, 1, k - 1)>> \o split(SubSeq(s, k + 1, Len(s)))

RECURSIVE join(_)
\* "\n".join(parts)
join(parts) ==
    IF Len(parts) = 0 THEN ""
    ELSE IF Len(parts) = 1 THEN parts[1]
    ELSE parts[1] \o "\n" \o join(Tail(parts))

RECURSIVE Rep(_, _)
\* c * n
Rep(c, n) ==
    IF n <= 0 THEN ""
    ELSE IF n = 1 THEN c
    ELSE Rep(c, n \div 2) \o Rep(c, n - (n \div 2))

---------------------------------------------------------------------------
(* Rationals, for the floats the code computes *)

Frac(n, d) == <<n, d>>
FLe(a, b) == a[1] * b[2] <= b[1] * a[2]
FLt(a, b) == a[1] * b[2] < b[1] * a[2]
FEq(a, b) == a[1] * b[2] = b[1] * a[2]
FAdd(a, b) == <<a[1] * b[2] + b[1] * a[2], a[2] * b[2]>>
FMul(a, b) == <<a[1] * b[1], a[2] * b[2]>>
FMin(a, b) == IF FLe(a, b) THEN a ELSE b
FMax(a, b) == IF FLe(a, b) THEN b ELSE a
FZero == Frac(0, 1)
FOne == Frac(1, 1)

---------------------------------------------------------------------------
(* Types *)

STRATEGIC == "strategic"
IMPLEMENTATION == "implementation"
DEBUG == "debug"
CHAT == "chat"
ContextType == {STRATEGIC, IMPLEMENTATION, DEBUG, CHAT}

\* the values of the enum ModelType
ModelType == {"claude", "gemini", "local"}

\* the two engines of the repository
FullEngine == "ContextEngine"
BasicEngine == "BasicContextEngine"
Engines == {FullEngine, BasicEngine}

---------------------------------------------------------------------------
(* The segment classifier *)

strategic_keywords(engine) ==
    {"architecture", "design", "approach", "strategy", "plan", "goal"}
        \cup (IF engine = BasicEngine THEN {"overview"} ELSE {})

debug_keywords(engine) ==
    {"error", "bug", "fix", "debug", "issue", "problem", "traceback"}
        \cup (IF engine = BasicEngine THEN {"exception"} ELSE {})

impl_keywords(engine) ==
    {"function", "class", "method", "implement", "code", "variable"}
        \cup (IF engine = BasicEngine THEN {"import", "def"} ELSE {})

\* a classifier that looks for the debug keywords first
classify_segment_debug_first(engine, text) ==
    LET text_lower == lower(text)
    IN  IF \E kw \in debug_keywords(engine) : Contains(text_lower, kw)
        THEN DEBUG
        ELSE IF \E kw \in strategic_keywords(engine) : Contains(text_lower, kw)
        THEN STRATEGIC
        ELSE IF \E kw \in impl_keywords(engine) : Contains(text_lower, kw)
        THEN IMPLEMENTATION
        ELSE CHAT

classify_segment(engine, text) ==
    LET text_lower == lower(text)
    IN  IF \E kw \in strategic_keywords(engine) : Contains(text_lower, kw)
        THEN STRATEGIC
        ELSE IF \E kw \in debug_keywords(engine) : Contains(text_lower, kw)
        THEN DEBUG
        ELSE IF \E kw \in impl_keywords(engine) : Contains(text_lower, kw)
        THEN IMPLEMENTATION
        ELSE CHAT

\* a 200 character line: implementation for the basic classifier ("def"),
\* chat for the full one
LongLine == "def " \o Rep("x", 196)

LinePool == {"Plan", "bug", "hi", " ", LongLine}

\* classify_segment on the lines of LinePool, evaluated once for each
LineClass == [e \in Engines, l \in LinePool |-> classify_segment(e, l)]

\* self.classifier.classify_segment(line)
classify(engine, line) ==
    IF <<engine, line>> \in DOMAIN LineClass
    THEN LineClass[engine, line]
    ELSE classify_segment(engine, line)

---------------------------------------------------------------------------
(* The weighting strategy: importance in tenths *)

base_weights ==
    [t \in ContextType |->
        CASE t = STRATEGIC -> 10
          [] t = IMPLEMENTATION -> 8
          [] t = DEBUG -> 6
          [] t = CHAT -> 3]

get_weights(target_model) ==
    CASE target_model = "local" ->
            [base_weights EXCEPT ![IMPLEMENTATION] = 9, ![DEBUG] = 7]
      [] target_model = "claude" ->
            [base_weights EXCEPT ![STRATEGIC] = 10, ![CHAT] = 4]
      [] target_model = "gemini" ->
            [base_weights EXCEPT ![IMPLEMENTATION] = 9, ![DEBUG] = 8]
      [] OTHER -> base_weights

---------------------------------------------------------------------------
(* The context optimizer *)

\* ContextSegment(...); the basic engine's segment has a timestamp, which
\* nothing reads, in place of the line numbers
ContextSegment(engine, content, segment_type, line_start, line_end) ==
    IF engine = FullEngine
    THEN [content |-> content, segment_type |-> segment_type,
          importance_score |-> 0,
          line_start |-> line_start, line_end |-> line_end]
    ELSE [content |-> content, segment_type |-> segment_type,
          importance_score |-> 0]

\* the locals of segment_conversation before its loop
SegStart ==
    [segments |-> <<>>, current_segment |-> <<>>,
     current_type |-> "None", start_line |-> 0]

\* the first line of a segment started at a category change
NewSegmentLines(line) == <<line>>

\* one pass of the loop of segment_conversation: line number i (from 0)
SegStep(engine, st, i, line) ==
    IF ~has_text(line) THEN st
    ELSE
      LET line_type == classify(engine, line)
          first == st.current_type = "None"
          cur_type == IF first THEN line_type ELSE st.current_type
          cur_start == IF first THEN i ELSE st.start_line
      IN  IF line_type # cur_type
          THEN [segments |->
                    IF st.current_segment # <<>>
                    THEN Append(st.segments,
                                ContextSegment(engine, join(st.current_segment),
                                               cur_type, cur_start, i - 1))
                    ELSE st.segments,
                current_segment |-> NewSegmentLines(line),
                current_type |-> line_type,
                start_line |-> i]
          ELSE [segments |-> st.segments,
                current_segment |-> Append(st.current_segment, line),
                current_type |-> cur_type,
                start_line |-> cur_start]

RECURSIVE SegLoop(_, _, _, _)
SegLoop(engine, lines, i, st) ==
    IF i > Len(lines) THEN st
    ELSE SegLoop(engine, lines, i + 1, SegStep(engine, st, i - 1, lines[i]))

\* a segmentation that forgets the segment still open when the lines end
SegFinalForgotten(engine, st, nlines) == st.segments

\* the segment added after the loop
SegFinal(engine, st, nlines) ==
    IF st.current_segment # <<>> /\ st.current_type # "None"
    THEN Append(st.segments,
                ContextSegment(engine, join(st.current_segment),
                               st.current_type, st.start_line, nlines - 1))
    ELSE st.segments

segment_conversation(engine, conversation) ==
    LET lines == split(conversation)
    IN  SegFinal(engine, SegLoop(engine, lines, 1, SegStart), Len(lines))

apply_weights(segments, target_model) ==
    LET weights == get_weights(target_model)
    IN  [i \in 1..Len(segments) |->
            [segments[i] EXCEPT !.importance_score = weights[segments[i].segment_type]]]

\* a sort that puts x before the elements as important as x
SortedInsertUnstable(sorted, x) ==
    LET k == Cardinality({i \in 1..Len(sorted) :
                            sorted[i].importance_score > x.importance_score})
    IN  SubSeq(sorted, 1, k) \o <<x>> \o SubSeq(sorted, k + 1, Len(sorted))

\* where sorted(..., reverse=True) puts x among the elements before it:
\* after every element that is not less important (the sort is stable)
SortedInsert(sorted, x) ==
    LET k == Cardinality({i \in 1..Len(sorted) :
                            sorted[i].importance_score >= x.importance_score})
    IN  SubSeq(sorted, 1, k) \o <<x>> \o SubSeq(sorted, k + 1, Len(sorted))

RECURSIVE SortedFrom(_, _, _)
SortedFrom(segments, i, acc) ==
    IF i > Len(segments) THEN acc
    ELSE SortedFrom(segments, i + 1, SortedInsert(acc, segments[i]))

\* sorted(segments, key=lambda s: s.importance_score, reverse=True)
sorted_segments(segments) == SortedFrom(segments, 1, <<>>)

\* the space that must be left for a partial segment to be appended
MEANINGFUL_SPACE == 100

\* a partial segment appended whenever any space is left
AnySpaceLeft(remaining) == remaining > 0

\* if remaining > 100
MeaningfulSpaceLeft(remaining) == remaining > MEANINGFUL_SPACE

\* a selection that counts the content once more than it should be allowed
FitsStrictly(current_length, segment_length, max_length) ==
    current_length + segment_length < max_length

\* current_length + segment_length <= max_length
Fits(current_length, segment_length, max_length) ==
    current_length + segment_length <= max_length

\* segment.content[: remaining - 3] + "..."
Partial(content, remaining) == SubSeq(content, 1, remaining - 3) \o "..."

\* a pass that goes on to the next segment after one that did not fit
SelectStepScanningOn(st, segment, max_length) ==
    LET segment_length == Len(segment.content)
    IN  IF Fits(st.current_length, segment_length, max_length)
        THEN [optimized_content |-> Append(st.optimized_content, segment.content),
              current_length |-> st.current_length + segment_length,
              stop |-> FALSE]
        ELSE [optimized_content |-> st.optimized_content,
              current_length |-> st.current_length,
              stop |-> FALSE]

\* one pass of the loop of optimize_context; stop is its break
SelectStep(st, segment, max_length) ==
    LET segment_length == Len(segment.content)
    IN  IF Fits(st.current_length, segment_length, max_length)
        THEN [optimized_content |-> Append(st.optimized_content, segment.content),
              current_length |-> st.current_length + segment_length,
              stop |-> FALSE]
        ELSE LET remaining == max_length - st.current_length
             IN  [optimized_content |->
                      IF MeaningfulSpaceLeft(remaining)
                      THEN Append(st.optimized_content,
                                  Partial(segment.content, remaining))
                      ELSE st.optimized_content,
                  current_length |-> st.current_length,
                  stop |-> TRUE]

RECURSIVE SelectLoop(_, _, _, _)
SelectLoop(sorted, i, st, max_length) ==
    IF i > Len(sorted) \/ st.stop THEN st
    ELSE SelectLoop(sorted, i + 1, SelectStep(st, sorted[i], max_length), max_length)

\* the list optimized_content at the end of optimize_context
selected_content(segments, max_length) ==
    SelectLoop(sorted_segments(segments), 1,
               [optimized_content |-> <<>>, current_length |-> 0, stop |-> FALSE],
               max_length).optimized_content

\* an output that ends every selected segment, the last too, with a newline
optimize_context_newline_ended(segments, max_length) ==
    join(selected_content(segments, max_length)) \o "\n"

optimize_context(segments, max_length) ==
    join(selected_content(segments, max_length))

\* ModelType(target_model.lower()): the enum value, or the ValueError the
\* full engine lets through and the basic engine answers with LOCAL
TargetModelEnum(engine, target_model) ==
    IF lower(target_model) \in ModelType THEN lower(target_model)
    ELSE IF engine = BasicEngine THEN "local"
    ELSE "ValueError"

ImportantTypes == {STRATEGIC, IMPLEMENTATION}

\* the segments counted in quality_score
important_segments(segments) ==
    {i \in 1..Len(segments) : segments[i].segment_type \in ImportantTypes}

\* the metrics optimize_handoff computes once the content is selected
HandoffMetrics(conversation, weighted_segments, optimized_content) ==
    LET original_length == Len(conversation)
        optimized_length == Len(optimized_content)
        important == important_segments(weighted_segments)
        preserved == {i \in important :
                        Contains(optimized_content, weighted_segments[i].content)}
    IN  [status |-> "ok",
         content |-> optimized_content,
         original_length |-> original_length,
         optimized_length |-> optimized_length,
         compression_ratio |->
             IF original_length > 0
             THEN Frac(optimized_length, original_length) ELSE FOne,
         estimated_time_savings |->
             IF original_length > optimized_length
             THEN Frac(original_length - optimized_length, 2000) ELSE FZero,
         quality_score |->
             IF Cardinality(important) > 0
             THEN Frac(Cardinality(preserved), Cardinality(important))
             ELSE FOne]

\* optimize_handoff from the weighted segments on
HandoffSelect(conversation, weighted_segments, max_length) ==
    HandoffMetrics(conversation, weighted_segments,
                   optimize_context(weighted_segments, max_length))

optimize_handoff(engine, conversation, source_model, target_model, max_length) ==
    LET target_model_enum == TargetModelEnum(engine, target_model)
    IN  IF target_model_enum = "ValueError"
        THEN [status |-> "ValueError"]
        ELSE HandoffSelect(conversation,
                           apply_weights(segment_conversation(engine, conversation),
                                         target_model_enum),
                           max_length)

---------------------------------------------------------------------------
(* Inputs of the optimizer *)

RECURSIVE LineSeqs(_)
LineSeqs(n) ==
    IF n = 0 THEN {<<>>}
    ELSE LET shorter == LineSeqs(n - 1)
         IN  shorter \cup {Append(ls, l) : ls \in {x \in shorter : Len(x) = n - 1},
                                            l \in LinePool}

Conversations == {join(ls) : ls \in LineSeqs(MaxLines)}

Targets == {"claude", "gemini", "Local", "gpt4"}

Budgets == (0..MaxBudget) \cup {50, 150, 4000}

\* segments as a caller of optimize_context may build them
SegmentPool ==
    { [content |-> c, segment_type |-> CHAT, importance_score |-> w] :
        c \in {"a"}, w \in {3, 10} }
    \cup { [content |-> Rep("y", 200), segment_type |-> STRATEGIC,
            importance_score |-> 10] }

RECURSIVE SegmentLists(_)
SegmentLists(n) ==
    IF n = 0 THEN {<<>>}
    ELSE LET shorter == SegmentLists(n - 1)
         IN  shorter \cup {Append(ss, s) : ss \in {x \in shorter : Len(x) = n - 1},
                                            s \in SegmentPool}

SegmentInputs == SegmentLists(MaxSegs)

\* the lines handed to classify_segment: one or two words, and three
\* lines of a conversation
ClassifyWords ==
    {"Plan", "STRATEGY", "bug", "Traceback", "code", "Function", "hi",
     "overview", "Exception", "import"}
ClassifyLines ==
    ClassifyWords
        \cup {a \o " " \o b : a \in ClassifyWords, b \in ClassifyWords}
        \cup {"STRATEGY bug code", "def foo(): pass",
              "Getting a traceback on this function", "thanks, that helps"}

NoCall ==
    [op |-> "none", engine |-> "none", conversation |-> "", segments |-> <<>>,
     target_model |-> "none", max_length |-> 0]

---------------------------------------------------------------------------
(* The optimizer's operations, called one at a time *)

InitOpt ==
    /\ optCall = NoCall
    /\ optRet = [status |-> "none"]

CallClassifySegment ==
    /\ optCall.op = "none"
    /\ \E engine \in Engines, text \in ClassifyLines :
        /\ optCall' = [NoCall EXCEPT !.op = "classify_segment",
                                     !.engine = engine,
                                     !.conversation = text]
        /\ optRet' = [status |-> "ok",
                      segment_type |-> classify_segment(engine, text)]
    /\ UNCHANGED besideOpt

CallSegmentConversation ==
    /\ optCall.op = "none"
    /\ \E engine \in Engines, conversation \in Conversations :
        /\ optCall' = [NoCall EXCEPT !.op = "segment_conversation",
                                     !.engine = engine,
                                     !.conversation = conversation]
        /\ optRet' = [status |-> "ok",
                      segments |-> segment_conversation(engine, conversation)]
    /\ UNCHANGED besideOpt

CallOptimizeContext ==
    /\ optCall.op = "none"
    /\ \E segments \in SegmentInputs, max_length \in Budgets :
        /\ optCall' = [NoCall EXCEPT !.op = "optimize_context",
                                     !.segments = segments,
                                     !.max_length = max_length]
        /\ optRet' = [status |-> "ok",
                      content |-> optimize_context(segments, max_length)]
    /\ UNCHANGED besideOpt

CallOptimizeHandoff ==
    /\ optCall.op = "none"
    /\ \E engine \in Engines, conversation \in Conversations,
          target_model \in Targets, max_length \in Budgets :
        /\ optCall' = [NoCall EXCEPT !.op = "optimize_handoff",
                                     !.engine = engine,
                                     !.conversation = conversation,
                                     !.target_model = target_model,
                                     !.max_length = max_length]
        /\ optRet' = optimize_handoff(engine, conversation, "claude",
                                      target_model, max_length)
    /\ UNCHANGED besideOpt

\* the caller takes the result; the engine keeps no state between calls
OptReturn ==
    /\ optCall.op # "none"
    /\ optCall' = NoCall
    /\ optRet' = [status |-> "none"]
    /\ UNCHANGED besideOpt

NextOpt ==
    \/ CallClassifySegment
    \/ CallSegmentConversation
    \/ CallOptimizeContext
    \/ CallOptimizeHandoff
    \/ OptReturn

---------------------------------------------------------------------------
(* The session persistence store, BasicSessionManager *)

None == "None"

\* None where a (context, model) pair is expected: the pair that is absent
NoPair == << >>

\* datetime.now().isoformat(): the JSON string of the time t
isoformat(t) == [kind |-> "iso", t |-> t]

\* values a hand-edited or damaged sessions.json may hold as last_updated:
\* a string that is no timestamp, and null
CorruptText == [kind |-> "text"]
JsonNull == [kind |-> "null"]

\* datetime.fromisoformat(value): the time, ValueError for a string that is
\* no ISO timestamp, TypeError for a value that is no string
fromisoformat(value) ==
    CASE value.kind = "iso" -> [status |-> "ok", t |-> value.t]
      [] value.kind = "text" -> [status |-> "ValueError"]
      [] OTHER -> [status |-> "TypeError"]

\* the record save_session_context stores
SessionRecord(context, model, t) ==
    [context |-> context, model |-> model, last_updated |-> isoformat(t),
     message_count |-> Len(split(context))]

\* what sessions.json may hold besides a document a save wrote whole: the
\* start of a document whose writer died after open(.., "w") had emptied
\* the file, text that is no JSON, a JSON value that is no object, and
\* bytes that are no text in the encoding open() reads with
TornFiles == {[kind |-> "torn", cut |-> c] : c \in {"empty", "partial"}}
ValueFiles ==
    {[kind |-> "value", type |-> t] : t \in {"list", "null", "number", "string"}}
DamagedFiles ==
    TornFiles \cup ValueFiles \cup {[kind |-> "garbage"], [kind |-> "undecodable"]}

\* json.load(f) of the open file: the value, or the exception raised. No
\* start of a document is a document: its closing brace is missing.
json_load(f) ==
    CASE f.kind = "json" -> [status |-> "ok", is_dict |-> TRUE, value |-> f.doc]
      [] f.kind = "value" -> [status |-> "ok", is_dict |-> FALSE, value |-> f.type]
      [] f.kind = "undecodable" -> [status |-> "UnicodeDecodeError"]
      [] OTHER -> [status |-> "JSONDecodeError"]

\* _load_sessions: the sessions of a store constructed on sessions.json,
\* or the exception that leaves the constructor
load_sessions(f) ==
    IF f.kind = "absent"
    THEN [status |-> "ok", sessions |-> << >>]
    ELSE LET loaded_data == json_load(f)
         IN  CASE loaded_data.status = "ok" ->
                     [status |-> "ok",
                      sessions |-> IF loaded_data.is_dict
                                   THEN loaded_data.value ELSE << >>]
               [] loaded_data.status = "JSONDecodeError" ->
                     [status |-> "ok", sessions |-> << >>]
               [] OTHER -> [status |-> loaded_data.status, sessions |-> << >>]

\* _save_sessions: json.dump of the whole dict
dump_sessions(d) == [kind |-> "json", doc |-> d]

\* self.sessions[session_id] = record
SetItem(d, key, value) ==
    [k \in DOMAIN d \cup {key} |-> IF k = key THEN value ELSE d[k]]

\* del self.sessions[k] for every k of keys
DelItems(d, keys) == [k \in DOMAIN d \ keys |-> d[k]]

\* a restore that takes a record with an empty context for no record
restore_unless_empty(d, session_id) ==
    IF session_id \in DOMAIN d /\ d[session_id].context # ""
    THEN [status |-> "ok", value |-> <<d[session_id].context, d[session_id].model>>]
    ELSE [status |-> "ok", value |-> NoPair]

\* restore_session_context: a record is truthy unless it has no key at all
restore_session_context(d, session_id) ==
    IF session_id \in DOMAIN d /\ DOMAIN d[session_id] # {}
    THEN IF {"context", "model"} \subseteq DOMAIN d[session_id]
         THEN [status |-> "ok",
               value |-> <<d[session_id].context, d[session_id].model>>]
         ELSE [status |-> "KeyError"]
    ELSE [status |-> "ok", value |-> NoPair]

\* what the try block of cleanup_old_sessions does with one record:
\* "remove", "keep", or the exception that leaves the method
CleanupVerdict(data, cutoff_date) ==
    IF "last_updated" \notin DOMAIN data THEN "remove"
    ELSE LET last_updated == fromisoformat(data.last_updated)
         IN  CASE last_updated.status = "ok" ->
                     IF last_updated.t < cutoff_date THEN "remove" ELSE "keep"
               [] last_updated.status = "ValueError" -> "remove"
               [] OTHER -> last_updated.status

\* cleanup_old_sessions(days) on the sessions d at time t: the sessions
\* after it and what it returns or raises
cleanup_old_sessions(d, days, t) ==
    LET cutoff_date == t - days
        raised == {CleanupVerdict(d[k], cutoff_date) : k \in DOMAIN d}
                      \ {"remove", "keep"}
        sessions_to_remove ==
            {k \in DOMAIN d : CleanupVerdict(d[k], cutoff_date) = "remove"}
    IN  IF raised # {}
        THEN [status |-> CHOOSE e \in raised : TRUE, sessions |-> d,
              removed_count |-> 0]
        ELSE [status |-> "ok", sessions |-> DelItems(d, sessions_to_remove),
              removed_count |-> Cardinality(sessions_to_remove)]

---------------------------------------------------------------------------
(* Inputs of the store *)

SessionIds == {"s1", "s2"}
Contexts == {"", "hello", "user: a\nassistant: b"}
Models == {"local", "claude"}
Days == {0, 30}

\* the day a store on an old sessions.json is opened
OpenDay == 31

\* records a sessions.json written earlier, or damaged since, may hold
OldRecords ==
    {SessionRecord("old", "local", t) : t \in {0, 1, 2}}
    \cup {[context |-> "old", model |-> "local", message_count |-> 1],
          [context |-> "old", model |-> "local", message_count |-> 1,
           last_updated |-> CorruptText],
          [context |-> "old", model |-> "local", message_count |-> 1,
           last_updated |-> JsonNull]}

OldDocuments ==
    UNION {[ids -> OldRecords] : ids \in SUBSET SessionIds}

NoStoreCall ==
    [op |-> "none", session_id |-> None, days |-> 0, at |-> 0, before |-> << >>,
     file_before |-> [kind |-> "absent"]]

\* the sessions.json files a store is opened on where none is running
ClosedFiles ==
    {[kind |-> "absent"]} \cup DamagedFiles
    \cup {dump_sessions([id \in {"s1"} |-> SessionRecord("old", "local", 0)])}

---------------------------------------------------------------------------
(* The store's operations *)

\* no store in use
StoreIdle ==
    /\ sessions = << >>
    /\ file = [kind |-> "absent"]
    /\ now = 0
    /\ storeCall = NoStoreCall
    /\ storeRet = [status |-> "none"]
    /\ lastSave = [id \in SessionIds |-> NoPair]
    /\ running = FALSE
    /\ peerSessions = << >>

\* BasicSessionManager() on a directory with no sessions.json
InitStore ==
    /\ sessions = << >>
    /\ file = [kind |-> "absent"]
    /\ now = 0
    /\ storeCall = NoStoreCall
    /\ storeRet = [status |-> "none"]
    /\ lastSave = [id \in SessionIds |-> NoPair]
    /\ running = TRUE
    /\ peerSessions = << >>

\* two BasicSessionManager() on one directory with no sessions.json
InitSharedStore == InitStore

\* no process yet, and a sessions.json left by earlier ones
InitClosedStore ==
    /\ sessions = << >>
    /\ file \in ClosedFiles
    /\ now = 0
    /\ storeCall = NoStoreCall
    /\ storeRet = [status |-> "none"]
    /\ lastSave = [id \in SessionIds |-> NoPair]
    /\ running = FALSE
    /\ peerSessions = << >>

\* BasicSessionManager() on a sessions.json written some time ago
InitOldStore ==
    /\ \E doc \in OldDocuments :
          /\ file = dump_sessions(doc)
          /\ sessions = load_sessions(file).sessions
    /\ now = OpenDay
    /\ storeCall = NoStoreCall
    /\ storeRet = [status |-> "none"]
    /\ lastSave = [id \in SessionIds |-> NoPair]
    /\ running = TRUE
    /\ peerSessions = << >>

\* BasicSessionManager(): a process constructs the store on sessions.json
OpenStore ==
    /\ ~running
    /\ \E opened \in {load_sessions(file)} :
          /\ running' = (opened.status = "ok")
          /\ sessions' = opened.sessions
          /\ storeCall' = [NoStoreCall EXCEPT
                              !.op = "__init__",
                              !.session_id = IF storeRet.status = "killed"
                                             THEN storeCall.session_id ELSE None,
                              !.at = now,
                              !.before = sessions,
                              !.file_before = file]
          /\ storeRet' = [status |-> opened.status, value |-> None]
    /\ UNCHANGED <<file, now, lastSave, peerSessions, besideStore>>

SaveSessionContext ==
    /\ running
    /\ \E session_id \in SessionIds, context \in Contexts, model \in Models :
        /\ sessions' = SetItem(sessions, session_id,
                               SessionRecord(context, model, now))
        /\ file' = dump_sessions(sessions')
        /\ storeCall' = [NoStoreCall EXCEPT !.op = "save_session_context",
                                            !.session_id = session_id,
                                            !.at = now,
                                            !.before = sessions,
                                            !.file_before = file]
        /\ storeRet' = [status |-> "ok", value |-> None]
        /\ lastSave' = [lastSave EXCEPT ![session_id] = <<context, model>>]
        /\ UNCHANGED <<now, running, peerSessions, besideStore>>

\* save_session_context in a process that dies inside _save_sessions, after
\* open(.., "w") emptied sessions.json and before json.dump wrote it whole
SaveSessionContextKilled ==
    /\ running
    /\ \E session_id \in SessionIds, context \in Contexts, model \in Models,
          torn \in TornFiles :
        /\ sessions' = SetItem(sessions, session_id,
                               SessionRecord(context, model, now))
        /\ file' = torn
        /\ running' = FALSE
        /\ storeCall' = [NoStoreCall EXCEPT !.op = "save_session_context",
                                            !.session_id = session_id,
                                            !.at = now,
                                            !.before = sessions,
                                            !.file_before = file]
        /\ storeRet' = [status |-> "killed"]
        /\ UNCHANGED <<now, lastSave, peerSessions, besideStore>>

\* save_session_context on the second store of the directory
PeerSaveSessionContext ==
    /\ running
    /\ \E session_id \in SessionIds, context \in Contexts, model \in Models :
        /\ peerSessions' = SetItem(peerSessions, session_id,
                                   SessionRecord(context, model, now))
        /\ file' = dump_sessions(peerSessions')
        /\ storeCall' = [NoStoreCall EXCEPT !.op = "peer.save_session_context",
                                            !.session_id = session_id,
                                            !.at = now,
                                            !.before = peerSessions,
                                            !.file_before = file]
        /\ storeRet' = [status |-> "ok", value |-> None]
        /\ lastSave' = [lastSave EXCEPT ![session_id] = <<context, model>>]
        /\ UNCHANGED <<sessions, now, running, besideStore>>

RestoreSessionContext ==
    /\ running
    /\ \E session_id \in SessionIds :
        /\ storeCall' = [NoStoreCall EXCEPT !.op = "restore_session_context",
                                            !.session_id = session_id,
                                            !.at = now,
                                            !.before = sessions,
                                            !.file_before = file]
        /\ storeRet' = restore_session_context(sessions, session_id)
        /\ UNCHANGED <<sessions, file, now, lastSave, running, peerSessions,
                       besideStore>>

CleanupOldSessions ==
    /\ running
    /\ \E days \in Days :
        LET done == cleanup_old_sessions(sessions, days, now)
        IN  /\ sessions' = done.sessions
            /\ file' = IF done.removed_count > 0
                       THEN dump_sessions(done.sessions) ELSE file
            /\ storeCall' = [NoStoreCall EXCEPT !.op = "cleanup_old_sessions",
                                                !.days = days,
                                                !.at = now,
                                                !.before = sessions,
                                                !.file_before = file]
            /\ storeRet' = [status |-> done.status, value |-> done.removed_count]
            /\ UNCHANGED <<now, lastSave, running, peerSessions, besideStore>>

\* a day passes
Tick(first_day) ==
    /\ now < first_day + MaxTicks
    /\ now' = now + 1
    /\ UNCHANGED <<sessions, file, storeCall, storeRet, lastSave, running,
                   peerSessions, besideStore>>

NextStore ==
    \/ SaveSessionContext
    \/ RestoreSessionContext
    \/ Tick(0)

NextOldStore ==
    \/ SaveSessionContext
    \/ CleanupOldSessions
    \/ Tick(OpenDay)

NextSharedStore ==
    \/ SaveSessionContext
    \/ PeerSaveSessionContext

NextClosedStore ==
    \/ OpenStore
    \/ SaveSessionContext
    \/ SaveSessionContextKilled
    \/ RestoreSessionContext

---------------------------------------------------------------------------
(* The quality measurer: text helpers *)

RECURSIVE Gcd(_, _)
\* math.gcd, by Euclid's algorithm
Gcd(a, b) == IF b = 0 THEN a ELSE Gcd(b, a % b)

\* the same rational in lowest terms (a float has one value, not many)
Reduce(a) ==
    IF a[1] = 0 THEN FZero
    ELSE LET g == Gcd(a[1], a[2]) IN <<a[1] \div g, a[2] \div g>>

\* max(0.0, min(1.0, x))
Clamp(x) == FMax(FZero, FMin(FOne, x))

Chars(s) == {CharAt(s, i) : i \in 1..Len(s)}
Letters == Chars("abcdefghijklmnopqrstuvwxyzABCDEFGHIJKLMNOPQRSTUVWXYZ")
Digits == Chars("0123456789")
\* the characters \w matches
WordChars == Letters \cup Digits \cup {"_"}

Range(f) == {f[k] : k \in DOMAIN f}

RECURSIVE Ascending(_)
\* sorted(S)
Ascending(S) ==
    IF S = {} THEN << >>
    ELSE LET least == CHOOSE x \in S : \A y \in S : x <= y
         IN  <<least>> \o Ascending(S \ {least})

\* the maximal runs of word characters of s, in order, as <<first, last>>
word_runs(s) ==
    LET is_word(i) == i >= 1 /\ i <= Len(s) /\ CharAt(s, i) \in WordChars
        starts == Ascending({i \in 1..Len(s) : is_word(i) /\ ~is_word(i - 1)})
        ends == Ascending({i \in 1..Len(s) : is_word(i) /\ ~is_word(i + 1)})
    IN  [k \in 1..Len(starts) |-> <<starts[k], ends[k]>>]

\* re.findall(r"\w+", s)
findall_words(s) ==
    LET runs == word_runs(s)
    IN  [k \in 1..Len(runs) |-> SubSeq(s, runs[k][1], runs[k][2])]

\* line.strip()
strip(line) ==
    LET inked == {i \in 1..Len(line) : CharAt(line, i) \notin Whitespace}
    IN  IF inked = {} THEN ""
        ELSE SubSeq(line, CHOOSE i \in inked : \A j \in inked : i <= j,
                          CHOOSE i \in inked : \A j \in inked : j <= i)

RECURSIVE findall_delimited(_, _, _)
\* re.findall(r'"([^"]+)"', s) for the delimiter '"', scanning from pos
findall_delimited(s, delimiter, pos) ==
    LET marks == {i \in pos..Len(s) : CharAt(s, i) = delimiter}
    IN  IF Cardinality(marks) < 2 THEN {}
        ELSE LET open == CHOOSE i \in marks : \A j \in marks : i <= j
                 close == CHOOSE i \in marks \ {open} :
                              \A j \in marks \ {open} : i <= j
             IN  IF close = open + 1
                 THEN findall_delimited(s, delimiter, close)
                 ELSE {SubSeq(s, open + 1, close - 1)}
                          \cup findall_delimited(s, delimiter, close + 1)

RECURSIVE findall_relation(_, _, _, _)
\* re.findall(r"(\w+)\s+verb\s+(\w+)", s), from the k-th word of s on, each
\* match as f"{match[0]}-{match[1]}"
findall_relation(s, runs, verb, k) ==
    LET word(n) == SubSeq(s, runs[n][1], runs[n][2])
        spaced(n) == \A i \in (runs[n][2] + 1)..(runs[n + 1][1] - 1) :
                         CharAt(s, i) \in Whitespace
    IN  IF k + 2 > Len(runs) THEN {}
        ELSE IF spaced(k) /\ word(k + 1) = verb /\ spaced(k + 1)
        THEN {word(k) \o "-" \o word(k + 2)}
                 \cup findall_relation(s, runs, verb, k + 3)
        ELSE findall_relation(s, runs, verb, k + 1)

RECURSIVE FSum(_)
\* sum(terms), of rationals
FSum(terms) ==
    IF Len(terms) = 0 THEN FZero
    ELSE Reduce(FAdd(terms[1], FSum(Tail(terms))))

---------------------------------------------------------------------------
(* The quality measurer: the five scores *)

context_indicators ==
    {"because", "therefore", "however", "also", "additionally", "furthermore"}

indicators_in(text) ==
    Cardinality({w \in context_indicators : Contains(lower(text), w)})

measure_coherence(original, optimized) ==
    LET kept == SelectSeq(split(optimized), has_text)
        optimized_lines == [k \in 1..Len(kept) |-> strip(kept[k])]
        n == Len(optimized_lines)
        words(k) == Range(findall_words(lower(optimized_lines[k])))
        topic_transitions ==
            Cardinality({i \in 2..n :
                /\ words(i - 1) # {} /\ words(i) # {}
                /\ 10 * Cardinality(words(i - 1) \cap words(i))
                       < Cardinality(words(i - 1) \cup words(i))})
        jumped == IF 10 * topic_transitions > 3 * n
                  THEN Frac(7, 10) ELSE FOne
        original_indicators == indicators_in(original)
        optimized_indicators == indicators_in(optimized)
        coherence_score ==
            IF original_indicators > 0
            THEN FMul(jumped,
                      FMin(FOne, FAdd(Frac(optimized_indicators,
                                           original_indicators),
                                      Frac(1, 2))))
            ELSE jumped
    IN  IF n < 2 THEN FOne ELSE Reduce(Clamp(coherence_score))

measure_completeness(original, optimized, segments) ==
    IF Len(segments) = 0
    THEN IF original # ""
         THEN Reduce(Frac(Len(optimized), Len(original)))
         ELSE FOne
    ELSE LET optimized_words == Range(findall_words(lower(optimized)))
             segment_words(k) ==
                 Range(findall_words(lower(segments[k].content)))
             total_importance ==
                 FSum([k \in 1..Len(segments) |->
                          Frac(segments[k].importance_score, 10)])
             preserved_importance ==
                 FSum([k \in 1..Len(segments) |->
                          IF segment_words(k) = {} THEN FZero
                          ELSE Frac(segments[k].importance_score
                                      * Cardinality(segment_words(k)
                                                      \cap optimized_words),
                                    10 * Cardinality(segment_words(k)))])
             completeness ==
                 IF total_importance[1] > 0
                 THEN <<preserved_importance[1] * total_importance[2],
                        preserved_importance[2] * total_importance[1]>>
                 ELSE FOne
         IN  Reduce(Clamp(completeness))

model_preferences ==
    [claude |-> [prefers |-> {"strategy", "architecture", "analysis",
                              "reasoning"},
                 dislikes |-> {"verbose", "repetitive", "trivial"}],
     gemini |-> [prefers |-> {"implementation", "code", "specific",
                              "actionable"},
                 dislikes |-> {"abstract", "philosophical", "vague"}],
     local |-> [prefers |-> {"structured", "clear", "direct", "specific"},
                dislikes |-> {"ambiguous", "complex", "abstract"}]]

\* re.search(r"\d+\.", s) or re.search(r"[-*]\s", s)
looks_listed(s) ==
    \E i \in 1..(Len(s) - 1) :
        \/ CharAt(s, i) \in Digits /\ CharAt(s, i + 1) = "."
        \/ CharAt(s, i) \in {"-", "*"} /\ CharAt(s, i + 1) \in Whitespace

\* in twentieths: the base score is 0.7 and a step is 0.05
measure_relevance(optimized, target_model) ==
    IF target_model \notin DOMAIN model_preferences THEN Frac(4, 5)
    ELSE LET prefs == model_preferences[target_model]
             optimized_lower == lower(optimized)
             found(kws) ==
                 Cardinality({w \in kws : Contains(optimized_lower, w)})
             structure == IF target_model = "local" /\ looks_listed(optimized)
                          THEN 2 ELSE 0
         IN  Reduce(Clamp(Frac(14 + found(prefs.prefers)
                                  - found(prefs.dislikes) + structure, 20)))

measure_compression_efficiency(original, optimized, segments) ==
    LET original_len == Len(original)
        optimized_len == Len(optimized)
        weighty_segments ==
            SelectSeq(segments, LAMBDA seg : seg.importance_score > 7)
        important_content ==
            join([k \in 1..Len(weighty_segments) |->
                     weighty_segments[k].content])
        preserved ==
            Cardinality({k \in 1..Len(weighty_segments) :
                            Contains(optimized, weighty_segments[k].content)})
        \* important_preservation / (compression_ratio + 0.1)
        efficiency ==
            Frac(preserved * 10 * original_len,
                 Len(weighty_segments) * (10 * optimized_len + original_len))
    IN  IF original_len = 0 THEN FOne
        ELSE IF important_content = ""
        THEN Reduce(Frac(optimized_len, original_len))
        ELSE Reduce(Clamp(efficiency))

common_words ==
    {"the", "a", "an", "and", "or", "but", "in", "on", "at", "to", "for",
     "of", "with", "by", "is", "are", "was", "were", "be", "been", "have",
     "has", "had", "do", "does", "did", "will", "would", "could", "should",
     "may", "might", "can", "this", "that", "these", "those"}

\* the code-like patterns are spans between backquotes, found as the quoted
\* strings are; no text of the model holds a backquote
extract_key_concepts(text) ==
    LET words == {w \in Range(findall_words(lower(text))) :
                     Len(w) >= 3 /\ Chars(w) \subseteq Letters}
    IN  (words \ common_words) \cup findall_delimited(text, "\"", 1)

relation_verbs == {"is", "has", "uses", "calls", "extends", "implements"}

extract_relationships(text) ==
    LET text_lower == lower(text)
        runs == word_runs(text_lower)
    IN  UNION {findall_relation(text_lower, runs, verb, 1) :
                  verb \in relation_verbs}

measure_semantic_preservation(original, optimized) ==
    LET original_concepts == extract_key_concepts(original)
        optimized_concepts == extract_key_concepts(optimized)
        concept_preservation ==
            Frac(Cardinality(original_concepts \cap optimized_concepts),
                 Cardinality(original_concepts))
        original_relationships == extract_relationships(original)
        optimized_relationships == extract_relationships(optimized)
        relationship_preservation ==
            IF original_relationships # {}
            THEN Frac(Cardinality(original_relationships
                                    \cap optimized_relationships),
                      Cardinality(original_relationships))
            ELSE FOne
        semantic_score ==
            FAdd(FMul(Frac(7, 10), concept_preservation),
                 FMul(Frac(3, 10), relationship_preservation))
    IN  IF original_concepts = {} THEN FOne
        ELSE Reduce(Clamp(semantic_score))

\* the scores of a call that misses the cache
QualityMetrics(original, optimized, segments, target_model, execution_time_ms) ==
    LET coherence == measure_coherence(original, optimized)
        completeness == measure_completeness(original, optimized, segments)
        relevance == measure_relevance(optimized, target_model)
        compression_eff ==
            measure_compression_efficiency(original, optimized, segments)
        semantic_preservation ==
            measure_semantic_preservation(original, optimized)
        overall ==
            FSum(<<FMul(coherence, Frac(20, 100)),
                   FMul(completeness, Frac(30, 100)),
                   FMul(relevance, Frac(20, 100)),
                   FMul(compression_eff, Frac(15, 100)),
                   FMul(semantic_preservation, Frac(15, 100))>>)
    IN  [coherence_score |-> coherence,
         completeness_score |-> completeness,
         relevance_score |-> relevance,
         compression_efficiency |-> compression_eff,
         semantic_preservation |-> semantic_preservation,
         execution_time_ms |-> execution_time_ms,
         overall_score |-> overall]

---------------------------------------------------------------------------
(* The quality measurer: the result cache *)

\* hashlib.md5(content.encode()).hexdigest()[:16], taken to be free of
\* collisions: two digests are equal exactly when the contents are
md5_prefix(content) == [md5 |-> content]

KEY_CHARS == 100

generate_cache_key(original, optimized, target_model) ==
    LET head(s) == SubSeq(s, 1, IF Len(s) < KEY_CHARS THEN Len(s) ELSE KEY_CHARS)
    IN  md5_prefix(head(original) \o head(optimized) \o target_model)

CACHE_LIMIT == 100

\* quality_cache is a dict: its entries in insertion order
KeysOf(cache) == [k \in 1..Len(cache) |-> cache[k].key]

\* the place of cache_key in the dict, 0 when it is not a key
PlaceOf(cache, cache_key) ==
    IF \E k \in 1..Len(cache) : cache[k].key = cache_key
    THEN CHOOSE k \in 1..Len(cache) : cache[k].key = cache_key
    ELSE 0

\* a hit that also moved the entry to the end of the dict
TouchedAndMovedLast(cache, at, execution_time_ms) ==
    [k \in 1..Len(cache) |->
        IF k < at THEN cache[k]
        ELSE IF k < Len(cache) THEN cache[k + 1]
        ELSE [cache[at] EXCEPT !.metrics.execution_time_ms = execution_time_ms]]

\* cached.execution_time_ms = execution_time_ms, on the cached object
Touched(cache, at, execution_time_ms) ==
    [cache EXCEPT ![at].metrics.execution_time_ms = execution_time_ms]

\* self.quality_cache[cache_key] = metrics, then the size limit
Stored(cache, cache_key, metrics) ==
    LET grown == Append(cache, [key |-> cache_key, metrics |-> metrics])
    IN  IF Len(grown) > CACHE_LIMIT THEN Tail(grown) ELSE grown

\* the inputs measured while the scores are examined
MeasureOriginals ==
    {"", "ab",
     "the cache is fast because the cache has keys\nplan is \"simple\""}
MeasureOptimizeds == {"", "the cache is fast"}
MeasureSegments ==
    {<< >>,
     <<[content |-> "the cache is fast", segment_type |-> STRATEGIC,
        importance_score |-> 10, line_start |-> 0, line_end |-> 0],
       [content |-> "plan is \"simple\"", segment_type |-> CHAT,
        importance_score |-> 3, line_start |-> 1, line_end |-> 1]>>}
MeasureTargets == {"local", "gpt4"}
MeasureInputs ==
    {[original |-> o, optimized |-> p, segments |-> s, target_model |-> t,
      execution_time_ms |-> 1] :
        o \in MeasureOriginals, p \in MeasureOptimizeds,
        s \in MeasureSegments, t \in MeasureTargets}

RECURSIVE Numeral(_)
\* str(n)
Numeral(n) ==
    IF n < 10 THEN CharAt("0123456789", n + 1)
    ELSE Numeral(n \div 10) \o CharAt("0123456789", (n % 10) + 1)

\* the n-th conversation of a long run
StreamInput(n, execution_time_ms) ==
    [original |-> "q" \o Numeral(n), optimized |-> "", segments |-> << >>,
     target_model |-> "local", execution_time_ms |-> execution_time_ms]

\* the inputs of a long run: new conversations, each measured in 1 ms, and
\* the first one measured again in 2 ms
StreamInputs ==
    {StreamInput(n, 1) : n \in 1..(MaxStreamInserts + 1)}
        \cup {StreamInput(1, 2)}

\* the scores of every input of the model, computed once
ScoresOf ==
    [i \in MeasureInputs \cup StreamInputs |->
        QualityMetrics(i.original, i.optimized, i.segments, i.target_model,
                       i.execution_time_ms)]

\* the cache after the call with inputs i
measure_optimization_quality(cache, i) ==
    LET cache_key ==
            generate_cache_key(i.original, i.optimized, i.target_model)
        at == PlaceOf(cache, cache_key)
    IN  IF at # 0
        THEN Touched(cache, at, i.execution_time_ms)
        ELSE Stored(cache, cache_key, ScoresOf[i])

\* what the call returns: the object the cache holds for the key, which is
\* the entry hit or the entry just stored
returned(cache, cache_key) == cache[PlaceOf(cache, cache_key)].metrics

NoMeasureCall == [op |-> "none"]

\* ContextQualityMeasurer()
InitMeasure ==
    /\ quality_cache = << >>
    /\ measCall = NoMeasureCall
    /\ measRet = [status |-> "none"]
    /\ inserts = 0
    /\ insertedAt = << >>

\* one call of measure_optimization_quality with inputs i, allowed to
\* insert while fewer than max_inserts entries were ever inserted
Measure(i, max_inserts) ==
    LET cache_key ==
            generate_cache_key(i.original, i.optimized, i.target_model)
        missed == PlaceOf(quality_cache, cache_key) = 0
    IN  /\ missed => inserts < max_inserts
        /\ quality_cache' = measure_optimization_quality(quality_cache, i)
        /\ measCall' = [op |-> "measure_optimization_quality", args |-> i,
                        key |-> cache_key, before |-> quality_cache]
        /\ measRet' = [status |-> "ok",
                       value |-> returned(quality_cache', cache_key)]
        /\ inserts' = IF missed THEN inserts + 1 ELSE inserts
        /\ insertedAt' = IF missed
                         THEN [k \in DOMAIN insertedAt \cup {cache_key} |->
                                  IF k = cache_key THEN inserts + 1
                                  ELSE insertedAt[k]]
                         ELSE insertedAt

MeasureOptimizationQuality ==
    /\ \E i \in MeasureInputs : Measure(i, MaxScoredInserts)
    /\ UNCHANGED besideMeasure

NextMeasure == MeasureOptimizationQuality

\* a long run measures a conversation it has not measured yet
MeasureNext ==
    /\ Measure(StreamInput(inserts + 1, 1), MaxStreamInserts)
    /\ UNCHANGED besideMeasure

\* or measures the first conversation once more
MeasureFirstAgain ==
    /\ inserts > 0
    /\ Measure(StreamInput(1, 2), MaxStreamInserts)
    /\ UNCHANGED besideMeasure

NextCache ==
    \/ MeasureNext
    \/ MeasureFirstAgain

---------------------------------------------------------------------------
(* The live context manager: Python's format of a float *)

\* the halfway cases of f"{x:.2f}", 0 <= x <= 1, that print rounded up: the
\* float nearest to x lies above x, or is x with an odd digit before it
HalfwayUp2 ==
    {<<1, 200>>, <<1, 40>>, <<7, 200>>, <<11, 200>>, <<13, 200>>,
     <<17, 200>>, <<19, 200>>, <<23, 200>>, <<27, 200>>, <<33, 200>>,
     <<39, 200>>, <<9, 40>>, <<51, 200>>, <<53, 200>>, <<11, 40>>,
     <<63, 200>>, <<13, 40>>, <<67, 200>>, <<3, 8>>, <<77, 200>>,
     <<79, 200>>, <<81, 200>>, <<89, 200>>, <<91, 200>>, <<93, 200>>,
     <<101, 200>>, <<103, 200>>, <<21, 40>>, <<107, 200>>, <<109, 200>>,
     <<111, 200>>, <<127, 200>>, <<129, 200>>, <<131, 200>>, <<133, 200>>,
     <<27, 40>>, <<137, 200>>, <<151, 200>>, <<153, 200>>, <<31, 40>>,
     <<157, 200>>, <<159, 200>>, <<161, 200>>, <<7, 8>>, <<177, 200>>,
     <<179, 200>>, <<181, 200>>, <<183, 200>>, <<37, 40>>, <<187, 200>>}

\* the halfway cases of f"{x:.1f}", 0 <= x <= 4, that print rounded up
HalfwayUp1 ==
    {<<1, 20>>, <<9, 20>>, <<11, 20>>, <<13, 20>>, <<3, 4>>, <<21, 20>>,
     <<27, 20>>, <<31, 20>>, <<7, 4>>, <<37, 20>>, <<47, 20>>, <<49, 20>>,
     <<11, 4>>, <<57, 20>>, <<59, 20>>, <<67, 20>>, <<69, 20>>, <<15, 4>>,
     <<77, 20>>, <<79, 20>>}

\* f"{x:.2f}" for scale = 100 and f"{x:.1f}" for scale = 10, x >= 0
format_fixed(x, scale, halfway_up) ==
    LET units == (x[1] * scale) \div x[2]
        rest == (x[1] * scale) % x[2]
        shown == IF 2 * rest > x[2] THEN units + 1
                 ELSE IF 2 * rest < x[2] THEN units
                 ELSE IF Reduce(x) \in halfway_up THEN units + 1
                 ELSE units
        decimals == shown % scale
    IN  Numeral(shown \div scale) \o "."
            \o (IF scale = 100 /\ decimals < 10 THEN "0" ELSE "")
            \o Numeral(decimals)

---------------------------------------------------------------------------
(* The live context manager *)

\* a or b
Or(a, b) == IF a \in {None, ""} THEN b ELSE a

DEFAULT_MAX_CONTEXT_LENGTH == 4000
DEFAULT_OPTIMIZATION_THRESHOLD == 6000
TOKEN_CHARS == 4

\* ConversationState(current_model=initial_model); last_optimization is None
\* or, once set, "datetime"
ConversationState(initial_model) ==
    [messages |-> << >>, current_model |-> initial_model,
     context_buffer |-> "", total_tokens_estimate |-> 0,
     last_optimization |-> None]

\* the optimizer call of the manager; the call that is interrupted raises
\* KeyboardInterrupt instead of returning
engine_optimize_handoff(conversation, source_model, target_model, max_length, interrupted) ==
    IF interrupted THEN [status |-> "KeyboardInterrupt"]
    ELSE optimize_handoff(FullEngine, conversation, source_model,
                          target_model, max_length)

\* an optimization that replaces the buffer and leaves the estimate as it was
ReplacedBufferOnly(state, optimized) ==
    [state EXCEPT !.context_buffer = optimized.content,
                  !.last_optimization = "datetime"]

\* the three fields an optimization replaces
Replaced(state, optimized) ==
    [state EXCEPT !.context_buffer = optimized.content,
                  !.total_tokens_estimate =
                      optimized.optimized_length \div TOKEN_CHARS,
                  !.last_optimization = "datetime"]

\* _auto_optimize_context on the state of one session: the state after it,
\* with the state before the optimizer call and how that call ended
auto_optimize_context(config, state, interrupted) ==
    IF state.current_model \in {None, ""}
    THEN [status |-> "ok", state |-> state, optimize |-> "none",
          before |-> state]
    ELSE LET optimized ==
                 engine_optimize_handoff(state.context_buffer,
                                         state.current_model,
                                         state.current_model,
                                         config.max_context_length,
                                         interrupted)
         IN  IF optimized.status # "ok"
             THEN [status |-> optimized.status, state |-> state,
                   optimize |-> optimized.status, before |-> state]
             ELSE [status |-> "ok", state |-> Replaced(state, optimized),
                   optimize |-> "ok", before |-> state]

\* the state without an optimizer call
Untouched(state) ==
    [status |-> "ok", state |-> state, optimize |-> "none", before |-> state]

\* add_message on the state of the session, which exists by now
append_message(config, state, content, role, model, interrupted) ==
    LET message == [content |-> content,
                    model |-> Or(model, Or(state.current_model, "claude")),
                    role |-> role]
        appended ==
            [state EXCEPT
                !.messages = Append(@, message),
                !.context_buffer = @ \o "\n" \o role \o ": " \o content,
                !.total_tokens_estimate = @ + (Len(content) \div TOKEN_CHARS)]
    IN  IF appended.total_tokens_estimate > config.optimization_threshold
        THEN auto_optimize_context(config, appended, interrupted)
        ELSE Untouched(appended)

\* start_conversation
start_conversation(convs, session_id, initial_model) ==
    SetItem(convs, session_id, ConversationState(initial_model))

\* the conversations a call leaves, from the outcome for its session
Outcome(convs, session_id, done, value) ==
    [status |-> done.status,
     conversations |-> SetItem(convs, session_id, done.state),
     value |-> IF done.status = "ok" THEN value ELSE None,
     optimize |-> done.optimize, before |-> done.before]

add_message(config, convs, session_id, content, role, model, interrupted) ==
    LET started == IF session_id \notin DOMAIN convs
                   THEN start_conversation(convs, session_id,
                                           Or(model, "claude"))
                   ELSE convs
    IN  Outcome(started, session_id,
                append_message(config, started[session_id], content, role,
                               model, interrupted),
                None)

\* the content of the system message of switch_model
switch_notice(new_model, optimized) ==
    "Context optimized for " \o new_model \o ". Compression: "
        \o format_fixed(optimized.compression_ratio, 100, HalfwayUp2)
        \o ", Estimated time savings: "
        \o format_fixed(optimized.estimated_time_savings, 10, HalfwayUp1)
        \o "s"

\* a missing session that is started all the same
no_conversation_started(convs, session_id) ==
    [status |-> "ValueError",
     conversations |-> start_conversation(convs, session_id, "claude"),
     value |-> None, optimize |-> "none", before |-> None]

\* raise ValueError(f"No conversation found for session {session_id}")
no_conversation(convs, session_id) ==
    [status |-> "ValueError", conversations |-> convs, value |-> None,
     optimize |-> "none", before |-> None]

\* a switch that records the new model before the context is optimized
switch_known_early(config, convs, session_id, new_model, interrupt_at) ==
    LET state == [convs[session_id] EXCEPT !.current_model = new_model]
        optimized ==
            engine_optimize_handoff(state.context_buffer,
                                    Or(convs[session_id].current_model,
                                       "claude"),
                                    new_model, config.max_context_length,
                                    interrupt_at = 1)
    IN  IF optimized.status # "ok"
        THEN [status |-> optimized.status,
              conversations |-> SetItem(convs, session_id, state),
              value |-> None,
              optimize |-> optimized.status, before |-> convs[session_id]]
        ELSE Outcome(convs, session_id,
                     append_message(config, Replaced(state, optimized),
                                    switch_notice(new_model, optimized),
                                    "system", new_model, interrupt_at = 2),
                     optimized.content)

\* switch_model on a session that exists
switch_known(config, convs, session_id, new_model, interrupt_at) ==
    LET state == convs[session_id]
        old_model == state.current_model
        optimized ==
            engine_optimize_handoff(state.context_buffer,
                                    Or(old_model, "claude"), new_model,
                                    config.max_context_length,
                                    interrupt_at = 1)
        switched == [Replaced(state, optimized)
                         EXCEPT !.current_model = new_model]
    IN  IF optimized.status # "ok"
        THEN [status |-> optimized.status, conversations |-> convs,
              value |-> None,
              optimize |-> optimized.status, before |-> state]
        ELSE Outcome(convs, session_id,
                     append_message(config, switched,
                                    switch_notice(new_model, optimized),
                                    "system", new_model, interrupt_at = 2),
                     optimized.content)

switch_model(config, convs, session_id, new_model, interrupt_at) ==
    IF session_id \notin DOMAIN convs
    THEN no_conversation(convs, session_id)
    ELSE switch_known(config, convs, session_id, new_model, interrupt_at)

get_current_context(config, convs, session_id, interrupted) ==
    IF session_id \notin DOMAIN convs
    THEN [status |-> "ok", conversations |-> convs, value |-> "",
          optimize |-> "none", before |-> None]
    ELSE LET state == convs[session_id]
             done == IF state.total_tokens_estimate
                          > config.max_context_length
                     THEN auto_optimize_context(config, state, interrupted)
                     ELSE Untouched(state)
         IN  Outcome(convs, session_id, done, done.state.context_buffer)

\* cleanup_session
cleanup_session(convs, session_id) == DelItems(convs, {session_id})

\* the managers of the model: LiveContextManager() with its defaults, one
\* that optimizes early while messages are added, and one with a
\* max_context_length below its optimization_threshold, as the defaults
\* have, that optimizes when the context is read after one long message
\* and when a second one is added
LiveConfigs ==
    {[max_context_length |-> DEFAULT_MAX_CONTEXT_LENGTH,
      optimization_threshold |-> DEFAULT_OPTIMIZATION_THRESHOLD],
     [max_context_length |-> SmallContextLength,
      optimization_threshold |-> SmallThreshold],
     [max_context_length |-> TinyContextLength,
      optimization_threshold |-> TinyThreshold]}

LiveModels == {"claude", "gpt4"}
LiveSwitches == {"gemini", "gpt4"}
LiveContents == {"hi", "plan to fix a bug"}
\* who speaks: the user, with no model named, or an assistant
LiveSpeakers == {<<"user", None>>, <<"assistant", "gpt4">>}

NoLiveCall == [op |-> "none"]

\* no manager in use
LiveIdle ==
    /\ conversations = << >>
    /\ liveConfig = [max_context_length |-> DEFAULT_MAX_CONTEXT_LENGTH,
                     optimization_threshold |-> DEFAULT_OPTIMIZATION_THRESHOLD]
    /\ liveCall = NoLiveCall
    /\ liveRet = [status |-> "none"]
    /\ liveCalls = 0

\* LiveContextManager(max_context_length=..., optimization_threshold=...)
InitLive ==
    /\ conversations = << >>
    /\ liveConfig \in LiveConfigs
    /\ liveCall = NoLiveCall
    /\ liveRet = [status |-> "none"]
    /\ liveCalls = 0

\* what every call of the manager records
LiveDone(op, session_id, given, done) ==
    /\ conversations' = done.conversations
    /\ liveCall' = [op |-> op, session_id |-> session_id, given |-> given,
                    before |-> conversations, optimize |-> done.optimize,
                    step_before |-> done.before]
    /\ liveRet' = [status |-> done.status, value |-> done.value]
    /\ liveCalls' = liveCalls + 1
    /\ UNCHANGED <<liveConfig, besideLive>>

\* the optimizer calls a call may be interrupted at: none, or any it makes
Interrupts(calls_made) == 0..calls_made

StartConversation ==
    /\ liveCalls < MaxLiveCalls
    /\ \E session_id \in SessionIds, initial_model \in LiveModels :
          LiveDone("start_conversation", session_id, <<initial_model>>,
                   [status |-> "ok",
                    conversations |->
                        start_conversation(conversations, session_id,
                                           initial_model),
                    value |-> None, optimize |-> "none", before |-> None])

AddMessage ==
    /\ liveCalls < MaxLiveCalls
    /\ \E session_id \in SessionIds, content \in LiveContents,
          speaker \in LiveSpeakers, interrupt_at \in Interrupts(1) :
          \E done \in {add_message(liveConfig, conversations, session_id,
                                   content, speaker[1], speaker[2],
                                   interrupt_at = 1)} :
              /\ interrupt_at = 1 => done.optimize = "KeyboardInterrupt"
              /\ LiveDone("add_message", session_id,
                          <<content, speaker[1], speaker[2]>>, done)

SwitchModel ==
    /\ liveCalls < MaxLiveCalls
    /\ \E session_id \in SessionIds, new_model \in LiveSwitches,
          interrupt_at \in Interrupts(2) :
          \E done \in {switch_model(liveConfig, conversations, session_id,
                                    new_model, interrupt_at)} :
              /\ interrupt_at # 0 => done.optimize = "KeyboardInterrupt"
              /\ LiveDone("switch_model", session_id, <<new_model>>, done)

GetCurrentContext ==
    /\ liveCalls < MaxLiveCalls
    /\ \E session_id \in SessionIds, interrupt_at \in Interrupts(1) :
          \E done \in {get_current_context(liveConfig, conversations,
                                           session_id, interrupt_at = 1)} :
              /\ interrupt_at = 1 => done.optimize = "KeyboardInterrupt"
              /\ LiveDone("get_current_context", session_id, << >>, done)

CleanupSession ==
    /\ liveCalls < MaxLiveCalls
    /\ \E session_id \in SessionIds :
          LiveDone("cleanup_session", session_id, << >>,
                   [status |-> "ok",
                    conversations |->
                        cleanup_session(conversations, session_id),
                    value |-> None, optimize |-> "none", before |-> None])

NextLive ==
    \/ StartConversation
    \/ AddMessage
    \/ SwitchModel
    \/ GetCurrentContext
    \/ CleanupSession

---------------------------------------------------------------------------
(* The analytics: the event store, the analyzer and the learner *)

\* the days get_events looks back by default, and find_optimal_weights does
ANALYSIS_DAYS == 30
WEIGHTS_DAYS == 90
\* the events find_optimal_weights needs before it leaves the defaults
WEIGHTS_MIN_EVENTS == 10
\* the scores a context type needs before it can count as problematic
PROBLEM_MIN_SCORES == 5
\* the problems generate_improvement_plan reports
TOP_PROBLEMS == 3

\* seq[::-1]
Reversed(seq) == [k \in 1..Len(seq) |-> seq[Len(seq) + 1 - k]]

\* float(np.mean(xs)) of a list that is not empty
Mean(xs) == Reduce(FMul(FSum(xs), Frac(1, Len(xs))))

\* [f(x) for x in seq]
FieldOf(seq, name) == [k \in 1..Len(seq) |-> seq[k][name]]

\* get_events(days_back=...): the events stored, which are kept in the order
\* of their timestamps, that are not older than the cutoff, latest first
get_events(stored, days_back) ==
    LET recent(e) == e.days_ago <= days_back
    IN  Reversed(SelectSeq(stored, recent))

RECURSIVE KeysInOrder(_, _)
\* the keys of a dict filled from a list of keys, in insertion order
KeysInOrder(keys, seen) ==
    IF Len(keys) = 0 THEN seen
    ELSE KeysInOrder(Tail(keys),
                     IF \E k \in 1..Len(seen) : seen[k] = keys[1]
                     THEN seen ELSE Append(seen, keys[1]))

\* the segment types of the events, one for every segment, with the
\* quality score of the segment's event
SegmentScores(events, default_type) ==
    LET typed(e) ==
            [k \in 1..Len(e.segments) |->
                [segment_type |->
                     IF "segment_type" \in DOMAIN e.segments[k]
                     THEN e.segments[k].segment_type ELSE default_type,
                 quality_score |-> e.quality_score]]
        flat[n \in 0..Len(events)] ==
            IF n = 0 THEN << >> ELSE flat[n - 1] \o typed(events[n])
    IN  flat[Len(events)]

\* ModelPerformance of the events of one target model
ModelPerformance(model, model_events) ==
    LET of_type(t) ==
            LET is_t(s) == s.segment_type = t
            IN  Len(SelectSeq(SegmentScores(model_events, "unknown"), is_t))
        types == {s.segment_type :
                     s \in Range(SegmentScores(model_events, "unknown"))}
        given(e) == e.user_feedback # None
        feedbacks == FieldOf(SelectSeq(model_events, given), "user_feedback")
    IN  [model_name |-> model,
         avg_compression_ratio |-> Mean(FieldOf(model_events, "compression_ratio")),
         avg_quality_score |-> Mean(FieldOf(model_events, "quality_score")),
         avg_processing_time |-> Mean(FieldOf(model_events, "execution_time_ms")),
         total_optimizations |-> Len(model_events),
         user_satisfaction |->
             IF Len(feedbacks) > 0 THEN Mean(feedbacks) ELSE FZero,
         context_types_handled |-> [t \in types |-> of_type(t)]]

\* analyze_model_performance: the dict, as its values in insertion order
analyze_model_performance(stored) ==
    LET events == get_events(stored, ANALYSIS_DAYS)
        models == KeysInOrder(FieldOf(events, "target_model"), << >>)
    IN  [k \in 1..Len(models) |->
            LET for_model(e) == e.target_model = models[k]
            IN  ModelPerformance(models[k], SelectSeq(events, for_model))]

DEFAULT_WEIGHTS ==
    [strategic |-> Frac(1, 1), implementation |-> Frac(4, 5),
     debug |-> Frac(3, 5), chat |-> Frac(3, 10)]

\* find_optimal_weights
find_optimal_weights(stored, target_model) ==
    LET for_model(e) == e.target_model = target_model
        model_events == SelectSeq(get_events(stored, WEIGHTS_DAYS), for_model)
    IN  IF Len(model_events) < WEIGHTS_MIN_EVENTS THEN DEFAULT_WEIGHTS
        ELSE LET scored(e) == FLt(FZero, e.quality_score)
                 context_quality ==
                     SegmentScores(SelectSeq(model_events, scored), "chat")
                 base_quality ==
                     Mean(FieldOf(model_events, "quality_score"))
                 qualities(t) ==
                     LET is_t(s) == s.segment_type = t
                     IN  FieldOf(SelectSeq(context_quality, is_t),
                                 "quality_score")
                 ratio(t) ==
                     LET avg_quality == Mean(qualities(t))
                     IN  Frac(avg_quality[1] * base_quality[2],
                              avg_quality[2] * base_quality[1])
             IN  [t \in {s.segment_type : s \in Range(context_quality)} |->
                     FMin(FOne, FMax(Frac(1, 10), ratio(t)))]

QUALITY_TARGET == Frac(4, 5)
COMPRESSION_FLOOR == Frac(3, 10)
WEIGHT_STEP == Frac(1, 10)

\* what suggest_weight_adjustments returns once the model has data: the
\* second if statement assigns "reason" again
suggestions_for(stored, perf, target_model) ==
    LET none == << >>
        for_quality ==
            IF FLt(perf.avg_quality_score, QUALITY_TARGET)
            THEN SetItem(SetItem(none, "recommended_weights",
                                 find_optimal_weights(stored, target_model)),
                         "reason",
                         "Quality score "
                             \o format_fixed(perf.avg_quality_score, 100,
                                             HalfwayUp2)
                             \o " below target 0.8")
            ELSE none
    IN  IF FLt(perf.avg_compression_ratio, COMPRESSION_FLOOR)
        THEN SetItem(SetItem(for_quality, "increase_weights_by", WEIGHT_STEP),
                     "reason",
                     "Compression ratio "
                         \o format_fixed(perf.avg_compression_ratio, 100,
                                         HalfwayUp2)
                         \o " too aggressive")
        ELSE for_quality

\* suggest_weight_adjustments
suggest_weight_adjustments(stored, target_model) ==
    LET current_performance == analyze_model_performance(stored)
        named(p) == p.model_name = target_model
        found == SelectSeq(current_performance, named)
    IN  IF Len(found) = 0 THEN << >>
        ELSE suggestions_for(stored, found[1], target_model)

RECURSIVE SortedByCount(_, _)
\* sorted(items, key=lambda x: x[1], reverse=True), which is stable
SortedByCount(items, acc) ==
    IF Len(items) = 0 THEN acc
    ELSE LET k == Cardinality({i \in 1..Len(acc) :
                                  acc[i].count >= items[1].count})
         IN  SortedByCount(Tail(items),
                           SubSeq(acc, 1, k) \o <<items[1]>>
                               \o SubSeq(acc, k + 1, Len(acc)))

\* _analyze_model_transitions: the dict, as its items in order
analyze_model_transitions(events) ==
    LET changed(e) == e.source_model # e.target_model
        named == [k \in 1..Len(SelectSeq(events, changed)) |->
                     SelectSeq(events, changed)[k].source_model \o " -> "
                         \o SelectSeq(events, changed)[k].target_model]
        transitions == KeysInOrder(named, << >>)
    IN  SortedByCount([k \in 1..Len(transitions) |->
                          [transition |-> transitions[k],
                           count |-> Cardinality({i \in 1..Len(named) :
                                                     named[i] = transitions[k]})]],
                      << >>)

RECURSIVE SortedByPotential(_, _)
\* sorted(problematic, key=lambda x: x["improvement_potential"], reverse=True)
SortedByPotential(items, acc) ==
    IF Len(items) = 0 THEN acc
    ELSE LET k == Cardinality({i \in 1..Len(acc) :
                                  FLe(items[1].improvement_potential,
                                      acc[i].improvement_potential)})
         IN  SortedByPotential(Tail(items),
                               SubSeq(acc, 1, k) \o <<items[1]>>
                                   \o SubSeq(acc, k + 1, Len(acc)))

\* _find_problematic_contexts
find_problematic_contexts(events) ==
    LET context_performance == SegmentScores(events, "unknown")
        types == KeysInOrder(FieldOf(context_performance, "segment_type"), << >>)
        scores(t) ==
            LET is_t(s) == s.segment_type = t
            IN  FieldOf(SelectSeq(context_performance, is_t), "quality_score")
        poor(t) ==
            /\ Len(scores(t)) >= PROBLEM_MIN_SCORES
            /\ FLt(Mean(scores(t)), Frac(7, 10))
    IN  SortedByPotential(
            [k \in 1..Len(SelectSeq(types, poor)) |->
                LET t == SelectSeq(types, poor)[k]
                IN  [context_type |-> t,
                     avg_quality |-> Mean(scores(t)),
                     sample_size |-> Len(scores(t)),
                     improvement_potential |->
                         Reduce(FAdd(Frac(9, 10),
                                     Frac(0 - Mean(scores(t))[1],
                                          Mean(scores(t))[2])))]],
            << >>)

\* detect_patterns, with the two entries the learner reads; the entries
\* peak_usage_hours, compression_trends and user_satisfaction_trends are
\* computed from the same events and read by no one in the repository
detect_patterns(stored) ==
    LET events == get_events(stored, ANALYSIS_DAYS)
    IN  IF Len(events) = 0 THEN << >>
        ELSE [most_common_transitions |-> analyze_model_transitions(events),
              problematic_context_types |-> find_problematic_contexts(events)]

\* the feature_requests of the plan: list(d.keys())[0] of an empty dict
\* raises IndexError
feature_requests(patterns) ==
    IF "most_common_transitions" \in DOMAIN patterns
    THEN IF Len(patterns.most_common_transitions) = 0
         THEN [status |-> "IndexError"]
         ELSE [status |-> "ok",
               value |-> <<"Optimize for common transition: "
                               \o patterns.most_common_transitions[1].transition>>]
    ELSE [status |-> "ok", value |-> << >>]

\* min(performance.values(), key=lambda p: p.avg_quality_score)
worst_model(performance) ==
    performance[CHOOSE k \in 1..Len(performance) :
                   /\ \A j \in 1..Len(performance) :
                          FLe(performance[k].avg_quality_score,
                              performance[j].avg_quality_score)
                   /\ \A j \in 1..(k - 1) :
                          FLt(performance[k].avg_quality_score,
                              performance[j].avg_quality_score)]

\* generate_improvement_plan: the plan, or the exception raised
generate_improvement_plan(stored) ==
    LET patterns == detect_patterns(stored)
        performance == analyze_model_performance(stored)
        problems ==
            IF "problematic_context_types" \in DOMAIN patterns
            THEN SubSeq(patterns.problematic_context_types, 1,
                        IF Len(patterns.problematic_context_types) < TOP_PROBLEMS
                        THEN Len(patterns.problematic_context_types)
                        ELSE TOP_PROBLEMS)
            ELSE << >>
        adjusted == {k \in 1..Len(performance) :
                        suggest_weight_adjustments(
                            stored, performance[k].model_name) # << >>}
        requests == feature_requests(patterns)
    IN  IF requests.status # "ok" THEN [status |-> requests.status]
        ELSE [status |-> "ok",
              value |->
                [priority_improvements |->
                     [k \in 1..Len(problems) |->
                         [issue |-> "Low quality for "
                                        \o problems[k].context_type
                                        \o " contexts",
                          impact |-> problems[k].improvement_potential,
                          action |-> "Improve classification or weighting for "
                                         \o problems[k].context_type]],
                 weight_adjustments |->
                     [m \in {performance[k].model_name : k \in adjusted} |->
                         suggest_weight_adjustments(stored, m)],
                 feature_requests |-> requests.value,
                 monitoring_focus |->
                     IF Len(performance) > 0
                     THEN <<"Monitor " \o worst_model(performance).model_name
                                \o " quality closely">>
                     ELSE << >>]]

\* the events of the model: handoffs between two backends and same-backend
\* compressions, of today and of 45 days ago, with a low or a high quality
\* and a strong or a mild compression
AnalyticsModels == {"claude", "gemini"}
EventPool ==
    {[session_id |-> "s1", days_ago |-> d, source_model |-> s,
      target_model |-> t, compression_ratio |-> c, quality_score |-> q,
      segments |-> <<[segment_type |-> CHAT]>>, user_feedback |-> None,
      execution_time_ms |-> Frac(1, 1)] :
        d \in {0, 45}, s \in AnalyticsModels, t \in AnalyticsModels,
        c \in {Frac(1, 5), Frac(3, 5)}, q \in {Frac(1, 2), Frac(9, 10)}}

NoLearnCall == [op |-> "none"]

\* no analytics in use
LearnIdle ==
    /\ context_events = << >>
    /\ learnCall = NoLearnCall
    /\ learnRet = [status |-> "none"]

\* ContextDatabase() on a new file, with its analyzer and learner
InitLearn == LearnIdle

\* store_event, of an event not earlier than the ones stored
StoreEvent ==
    /\ Len(context_events) < MaxEvents
    /\ \E event \in EventPool :
          /\ Len(context_events) > 0 =>
                 event.days_ago <= context_events[Len(context_events)].days_ago
          /\ context_events' = Append(context_events, event)
          /\ learnCall' = [op |-> "store_event", event |-> event]
          /\ learnRet' = [status |-> "ok", value |-> None]
    /\ UNCHANGED besideLearn

SuggestWeightAdjustments ==
    /\ \E target_model \in AnalyticsModels :
          /\ learnCall' = [op |-> "suggest_weight_adjustments",
                           target_model |-> target_model]
          /\ learnRet' = [status |-> "ok",
                          value |-> suggest_weight_adjustments(context_events,
                                                               target_model)]
    /\ UNCHANGED <<context_events, besideLearn>>

GenerateImprovementPlan ==
    /\ learnCall' = [op |-> "generate_improvement_plan"]
    /\ learnRet' = generate_improvement_plan(context_events)
    /\ UNCHANGED <<context_events, besideLearn>>

NextLearn ==
    \/ StoreEvent
    \/ SuggestWeightAdjustments
    \/ GenerateImprovementPlan

---------------------------------------------------------------------------
(* The CLI context manager, BasicCLIContextManager, and SessionService *)

\* the default of switch_model's max_context_length
CLI_MAX_CONTEXT_LENGTH == 4000

\* BasicCLIContextManager(): the fields of a manager just constructed
BasicCLIContextManager ==
    [current_session |-> None, current_context |-> "", current_model |-> "local"]

\* the id start_session makes up when it is given none
default_session_id(t) == "session_" \o ToString(t)

\* start_session(session_id) of the manager mgr over the store's sessions d
cli_start_session(mgr, d, session_id, t) ==
    LET id == IF session_id \in {None, ""} THEN default_session_id(t)
              ELSE session_id
        started == [mgr EXCEPT !.current_session = id]
        restored == restore_session_context(d, id)
    IN  CASE restored.status # "ok" ->
                 [status |-> restored.status, manager |-> started, value |-> None]
          [] restored.value # NoPair ->
                 [status |-> "ok",
                  manager |-> [started EXCEPT
                                  !.current_context = restored.value[1],
                                  !.current_model = restored.value[2]],
                  value |-> "Restored session"]
          [] OTHER ->
                 [status |-> "ok",
                  manager |-> [started EXCEPT !.current_context = ""],
                  value |-> "Started new session"]

\* the save both add_message and switch_model end with
cli_saved(mgr, d, t) ==
    IF mgr.current_session # None
    THEN SetItem(d, mgr.current_session,
                 SessionRecord(mgr.current_context, mgr.current_model, t))
    ELSE d

\* add_message(role, content, model): the manager after it
cli_add_message(mgr, role, content, model) ==
    LET message == role \o ": " \o content
    IN  [mgr EXCEPT
            !.current_model = IF model \in {None, ""} THEN @ ELSE model,
            !.current_context = IF @ # "" THEN @ \o "\n" \o message
                                ELSE message]

\* the OptimizedContext of the basic engine: five of the fields
OptimizedContext(content, original_length, optimized_length, compression_ratio, quality_score) ==
    [content |-> content, original_length |-> original_length,
     optimized_length |-> optimized_length,
     compression_ratio |-> compression_ratio,
     quality_score |-> quality_score]

\* switch_model(new_model, max_context_length): the manager after it, what
\* it returns, and whether it went on to the save
cli_switch_model(mgr, new_model, max_context_length) ==
    IF mgr.current_context = ""
    THEN [manager |-> [mgr EXCEPT !.current_model = new_model],
          value |-> OptimizedContext("", 0, 0, FOne, FOne),
          saves |-> FALSE]
    ELSE LET optimized == optimize_handoff(BasicEngine, mgr.current_context,
                                           mgr.current_model, new_model,
                                           max_context_length)
         IN  [manager |-> [mgr EXCEPT !.current_context = optimized.content,
                                      !.current_model = new_model],
              value |-> OptimizedContext(optimized.content,
                                         optimized.original_length,
                                         optimized.optimized_length,
                                         optimized.compression_ratio,
                                         optimized.quality_score),
              saves |-> TRUE]

\* ModelManager(): the fields of a manager constructed under the settings;
\* claude_model and gemini_model are TRUE for a model object, FALSE for None
ModelManager(settings) ==
    [model_available |-> FALSE,
     claude_model |-> settings.claude_api_key # "",
     gemini_model |-> settings.google_api_key # "",
     current_model_name |-> "local"]

\* the body of ModelManager.switch_model(model_name): the manager after it
\* and the message
ModelManager_switch_model(mm, model_name) ==
    CASE model_name \in {"local", "ollama"} ->
             [manager |-> [mm EXCEPT !.current_model_name = "local"],
              message |-> "Switched to Local model (Ollama)"]
      [] model_name = "claude" ->
             IF mm.claude_model
             THEN [manager |-> [mm EXCEPT !.current_model_name = "claude"],
                   message |-> "Switched to Claude (Anthropic)"]
             ELSE [manager |-> mm, message |-> "Claude not available"]
      [] model_name = "gemini" ->
             IF mm.gemini_model
             THEN [manager |-> [mm EXCEPT !.current_model_name = "gemini"],
                   message |-> "Switched to Gemini (Google)"]
             ELSE [manager |-> mm, message |-> "Gemini not available"]
      [] OTHER -> [manager |-> mm, message |-> "Unknown model"]

\* a call of the async switch_model: awaited, its body runs and the value
\* is the message; not awaited, the value is the coroutine object and the
\* body never runs
call_switch_model(mm, model_name, awaited) ==
    IF awaited
    THEN ModelManager_switch_model(mm, model_name)
    ELSE [manager |-> mm, message |-> [coroutine |-> "switch_model"]]

\* "{x:.2f}" of the ratios a switch reports
two_decimals(x) == format_fixed(x, 2, HalfwayUp2)

\* SessionService.switch_model_with_context(new_model) on the two managers
switch_model_with_context(mm, mgr, new_model) ==
    LET switch_result == call_switch_model(mm, new_model, FALSE)
        optimized == cli_switch_model(mgr, new_model, CLI_MAX_CONTEXT_LENGTH)
    IN  [model_manager |-> switch_result.manager,
         context_manager |-> optimized.manager,
         saves |-> optimized.saves,
         value |->
             [message |-> switch_result.message,
              context_optimization |->
                  [original_length |-> optimized.value.original_length,
                   optimized_length |-> optimized.value.optimized_length,
                   compression_ratio |->
                       two_decimals(optimized.value.compression_ratio),
                   quality_score |->
                       two_decimals(optimized.value.quality_score)]]]

---------------------------------------------------------------------------
(* Inputs of the CLI context manager and of the service *)

CliContents == {"fix a bug"}
CliSpeakers == {<<"user", None>>, <<"assistant", "claude">>}
CliSwitchModels == {"claude", "gemini"}
CliLengths == {CLI_MAX_CONTEXT_LENGTH, SmallContextLength}

\* the API keys the settings may carry
SettingsPool ==
    {[claude_api_key |-> c, google_api_key |-> g] :
        c \in {"", "sk-claude"}, g \in {"", "sk-google"}}

\* the names a model switch is asked for: the known ones and one unknown
ServiceModels == {"local", "ollama", "claude", "gemini", "gpt4"}

NoSessCall ==
    [op |-> "none", session_id |-> None, new_model |-> None, fresh |-> FALSE,
     held |-> BasicCLIContextManager,
     model_manager_before |-> ModelManager([claude_api_key |-> "",
                                            google_api_key |-> ""])]

---------------------------------------------------------------------------
(* The operations of the CLI context manager *)

\* no CLI manager and no service in use
SessionIdle ==
    /\ context_manager = BasicCLIContextManager
    /\ model_manager = ModelManager([claude_api_key |-> "",
                                     google_api_key |-> ""])
    /\ sessCall = NoSessCall
    /\ sessRet = [status |-> "none"]

\* BasicCLIContextManager() on a directory with no sessions.json
InitCli == SessionIdle

\* what a call of the manager leaves alone in the store
besideSessions ==
    <<now, storeCall, storeRet, lastSave, running, peerSessions>>

\* BasicCLIContextManager(): a new manager, whose store loads sessions.json,
\* takes the place of the one in use
CliConstruct ==
    /\ sessCall.op # "__init__"
    /\ \E opened \in {load_sessions(file)} :
          /\ opened.status = "ok"
          /\ sessions' = opened.sessions
    /\ context_manager' = BasicCLIContextManager
    /\ sessCall' = [NoSessCall EXCEPT !.op = "__init__",
                                      !.held = context_manager]
    /\ sessRet' = [status |-> "ok", value |-> None]
    /\ UNCHANGED <<file, model_manager, besideSessions, besideSession>>

\* start_session(session_id)
CliStartSession ==
    \E session_id \in SessionIds :
        \E done \in {cli_start_session(context_manager, sessions,
                                       session_id, now)} :
            /\ context_manager' = done.manager
            /\ sessCall' = [NoSessCall EXCEPT
                               !.op = "start_session",
                               !.session_id = session_id,
                               !.fresh = (sessCall.op = "__init__"),
                               !.held = IF sessCall.op = "__init__"
                                        THEN sessCall.held
                                        ELSE context_manager]
            /\ sessRet' = [status |-> done.status, value |-> done.value]
            /\ UNCHANGED <<sessions, file, model_manager, besideSessions,
                           besideSession>>

\* add_message(role, content, model)
CliAddMessage ==
    /\ Len(context_manager.current_context) < MaxContextChars
    /\ \E speaker \in CliSpeakers, content \in CliContents :
        \E done \in {cli_add_message(context_manager, speaker[1], content,
                                     speaker[2])} :
            /\ context_manager' = done
            /\ sessions' = cli_saved(done, sessions, now)
            /\ file' = IF done.current_session # None
                       THEN dump_sessions(sessions') ELSE file
            /\ sessCall' = [NoSessCall EXCEPT !.op = "add_message",
                                              !.held = context_manager]
            /\ sessRet' = [status |-> "ok", value |-> None]
            /\ UNCHANGED <<model_manager, besideSessions, besideSession>>

\* switch_model(new_model, max_context_length)
CliSwitchModel ==
    \E new_model \in CliSwitchModels, max_context_length \in CliLengths :
        \E done \in {cli_switch_model(context_manager, new_model,
                                      max_context_length)} :
            /\ context_manager' = done.manager
            /\ sessions' = IF done.saves
                           THEN cli_saved(done.manager, sessions, now)
                           ELSE sessions
            /\ file' = IF done.saves /\ done.manager.current_session # None
                       THEN dump_sessions(sessions') ELSE file
            /\ sessCall' = [NoSessCall EXCEPT !.op = "switch_model",
                                              !.new_model = new_model,
                                              !.held = context_manager]
            /\ sessRet' = [status |-> "ok", value |-> done.value]
            /\ UNCHANGED <<model_manager, besideSessions, besideSession>>

NextCli ==
    \/ CliConstruct
    \/ CliStartSession
    \/ CliAddMessage
    \/ CliSwitchModel

---------------------------------------------------------------------------
(* The operations of SessionService *)

\* SessionService() under some settings, on a directory with no
\* sessions.json
InitService ==
    /\ context_manager = BasicCLIContextManager
    /\ \E settings \in SettingsPool : model_manager = ModelManager(settings)
    /\ sessCall = NoSessCall
    /\ sessRet = [status |-> "none"]

\* initialize(): start_session() with the id made up, then the model
\* manager's initialize(), which finds the local model running or not
ServiceInitialize ==
    /\ context_manager.current_session = None
    /\ \E available \in BOOLEAN :
        \E done \in {cli_start_session(context_manager, sessions, None, now)} :
            /\ context_manager' = done.manager
            /\ model_manager' = [model_manager EXCEPT
                                    !.model_available = available]
            /\ sessCall' = [NoSessCall EXCEPT
                               !.op = "initialize",
                               !.session_id = done.manager.current_session,
                               !.held = context_manager,
                               !.model_manager_before = model_manager]
            /\ sessRet' = [status |-> done.status,
                           value |-> done.manager.current_session]
    /\ UNCHANGED <<sessions, file, besideSessions, besideSession>>

\* add_message_to_context(role, content)
ServiceAddMessageToContext ==
    /\ Len(context_manager.current_context) < MaxContextChars
    /\ \E speaker \in CliSpeakers, content \in CliContents :
        \E done \in {cli_add_message(context_manager, speaker[1], content,
                                     model_manager.current_model_name)} :
            /\ context_manager' = done
            /\ sessions' = cli_saved(done, sessions, now)
            /\ file' = IF done.current_session # None
                       THEN dump_sessions(sessions') ELSE file
            /\ sessCall' = [NoSessCall EXCEPT
                               !.op = "add_message_to_context",
                               !.held = context_manager,
                               !.model_manager_before = model_manager]
            /\ sessRet' = [status |-> "ok", value |-> None]
            /\ UNCHANGED <<model_manager, besideSessions, besideSession>>

\* the /claude, /gemini, /local and /ollama commands of the system handler,
\* which await the model manager's switch_model
HandleModelCommand ==
    \E task \in {"claude", "gemini", "local", "ollama"} :
        \E done \in {call_switch_model(model_manager, task, TRUE)} :
            /\ model_manager' = done.manager
            /\ sessCall' = [NoSessCall EXCEPT
                               !.op = "handle_built_in_command",
                               !.new_model = task,
                               !.held = context_manager,
                               !.model_manager_before = model_manager]
            /\ sessRet' = [status |-> "ok", value |-> done.message]
            /\ UNCHANGED <<context_manager, sessions, file, besideSessions,
                           besideSession>>

\* switch_model_with_context(new_model)
SwitchModelWithContext ==
    \E new_model \in ServiceModels :
        \E done \in {switch_model_with_context(model_manager, context_manager,
                                               new_model)} :
            /\ model_manager' = done.model_manager
            /\ context_manager' = done.context_manager
            /\ sessions' = IF done.saves
                           THEN cli_saved(done.context_manager, sessions, now)
                           ELSE sessions
            /\ file' = IF done.saves
                          /\ done.context_manager.current_session # None
                       THEN dump_sessions(sessions') ELSE file
            /\ sessCall' = [NoSessCall EXCEPT
                               !.op = "switch_model_with_context",
                               !.new_model = new_model,
                               !.held = context_manager,
                               !.model_manager_before = model_manager]
            /\ sessRet' = [status |-> "ok", value |-> done.value]
            /\ UNCHANGED <<besideSessions, besideSession>>

NextService ==
    \/ ServiceInitialize
    \/ ServiceAddMessageToContext
    \/ HandleModelCommand
    \/ SwitchModelWithContext

---------------------------------------------------------------------------
(* The specifications of the store *)

\* the optimizer with no call made
OptIdle ==
    /\ optCall = NoCall
    /\ optRet = [status |-> "none"]

\* no measurer in use
MeasureIdle == InitMeasure

InitStoreSpec ==
    OptIdle /\ MeasureIdle /\ LiveIdle /\ InitStore /\ LearnIdle /\ SessionIdle

InitOldStoreSpec ==
    OptIdle /\ MeasureIdle /\ LiveIdle /\ InitOldStore /\ LearnIdle /\ SessionIdle

SpecStore == InitStoreSpec /\ [][NextStore]_vars

SpecOldStore == InitOldStoreSpec /\ [][NextOldStore]_vars

InitSharedStoreSpec ==
    OptIdle /\ MeasureIdle /\ LiveIdle /\ InitSharedStore /\ LearnIdle /\ SessionIdle

SpecSharedStore == InitSharedStoreSpec /\ [][NextSharedStore]_vars

InitClosedStoreSpec ==
    OptIdle /\ MeasureIdle /\ LiveIdle /\ InitClosedStore /\ LearnIdle /\ SessionIdle

SpecClosedStore == InitClosedStoreSpec /\ [][NextClosedStore]_vars

---------------------------------------------------------------------------
(* Claims about the store *)

\* C7 (SpecStore): after any sequence of save_session_context calls,
\* restore_session_context(id) returns the (context, model) pair of the most
\* recent save for id, also when the saved context is the empty string, and
\* None for an id that was never saved.
C7_RestoreReturnsLastSave ==
    storeCall.op = "restore_session_context" =>
        /\ storeRet.status = "ok"
        /\ storeRet.value = lastSave[storeCall.session_id]

C7_Witness ==
    /\ storeCall.op = "restore_session_context"
    /\ lastSave[storeCall.session_id] # NoPair
    /\ lastSave[storeCall.session_id][1] = ""
    /\ storeRet.value = lastSave[storeCall.session_id]
    /\ \E other \in SessionIds : lastSave[other] = NoPair

\* a record the claim has cleanup remove at the cutoff date: last_updated
\* is missing, is no timestamp, or is earlier than the cutoff
C8_Expired(data, cutoff_date) ==
    \/ "last_updated" \notin DOMAIN data
    \/ data.last_updated.kind # "iso"
    \/ data.last_updated.t < cutoff_date

\* C8 (SpecOldStore): cleanup_old_sessions(days) removes exactly the records
\* whose last_updated is earlier than now minus days, is missing or cannot be
\* parsed as a timestamp, whatever the corrupt value is; it leaves every
\* other record unchanged, never raises, and returns the number removed.
C8_CleanupRemovesExpired ==
    storeCall.op = "cleanup_old_sessions" =>
        LET before == storeCall.before
            gone == {k \in DOMAIN before :
                        C8_Expired(before[k], storeCall.at - storeCall.days)}
        IN  /\ storeRet.status = "ok"
            /\ sessions = DelItems(before, gone)
            /\ storeRet.value = Cardinality(gone)

\* C15 (SpecClosedStore): a store constructed after a process died inside a
\* save, between opening sessions.json for writing and writing the whole
\* document, restores for every other session id the record that process
\* held, which its earlier saves or its load had in the file.
C15_CrashKeepsOtherRecords ==
    (storeCall.op = "__init__" /\ storeCall.session_id # None) =>
        /\ storeRet.status = "ok"
        /\ \A id \in DOMAIN storeCall.before \ {storeCall.session_id} :
              restore_session_context(sessions, id)
                  = restore_session_context(storeCall.before, id)

\* C16 (SpecSharedStore): a save_session_context by either of two stores on
\* one sessions.json leaves in the file, unchanged, the record of every
\* other session id the file held before the save.
C16_SharedFileKeepsOtherRecords ==
    storeCall.op \in {"save_session_context", "peer.save_session_context"} =>
        \A id \in SessionIds \ {storeCall.session_id} :
            (storeCall.file_before.kind = "json"
             /\ id \in DOMAIN storeCall.file_before.doc) =>
                /\ file.kind = "json"
                /\ id \in DOMAIN file.doc
                /\ file.doc[id] = storeCall.file_before.doc[id]

\* C17 (SpecClosedStore): constructing a store on a sessions.json that is
\* no JSON text, or is a JSON value other than an object, raises nothing
\* and gives a store with no sessions.
C17_DamagedFileLoadsEmpty ==
    (storeCall.op = "__init__" /\ storeCall.file_before \in DamagedFiles) =>
        /\ storeRet.status = "ok"
        /\ running
        /\ sessions = << >>

---------------------------------------------------------------------------
(* The specifications of the quality measurer *)

InitMeasureSpec ==
    OptIdle /\ StoreIdle /\ LiveIdle /\ InitMeasure /\ LearnIdle /\ SessionIdle

\* calls with the inputs whose scores are examined
SpecMeasure == InitMeasureSpec /\ [][NextMeasure]_vars

\* a long run of calls on one measurer
SpecCache == InitMeasureSpec /\ [][NextCache]_vars

---------------------------------------------------------------------------
(* Claims about the quality measurer *)

\* C9 (SpecCache): after every call of measure_optimization_quality the
\* cache holds at most 100 entries; a call that inserts a new key into a
\* cache of 100 entries evicts exactly one entry, the one inserted first,
\* and a call that hits an entry leaves the order of the entries, which is
\* their eviction order, as it was.
C9_CacheBoundedFifo ==
    measCall.op = "measure_optimization_quality" =>
        LET before == measCall.before
            hit == \E k \in 1..Len(before) : before[k].key = measCall.key
            gone == Range(KeysOf(before)) \ Range(KeysOf(quality_cache))
        IN  /\ Len(quality_cache) <= 100
            /\ hit => KeysOf(quality_cache) = KeysOf(before)
            /\ (~hit /\ Len(before) < 100) =>
                  KeysOf(quality_cache) = Append(KeysOf(before), measCall.key)
            /\ (~hit /\ Len(before) = 100) =>
                  /\ Cardinality(gone) = 1
                  /\ \A v \in gone, k \in Range(KeysOf(before)) :
                         insertedAt[v] <= insertedAt[k]
                  /\ measCall.key \in Range(KeysOf(quality_cache))

\* a 101st key was inserted and evicted the entry inserted first, although
\* that entry had been hit since (its execution_time_ms is the hit's)
C9_Witness ==
    /\ measCall.op = "measure_optimization_quality"
    /\ Len(measCall.before) = 100
    /\ \A k \in 1..100 : measCall.before[k].key # measCall.key
    /\ measCall.before[1].metrics.execution_time_ms = 2
    /\ insertedAt[measCall.before[1].key] = 1
    /\ \A k \in 1..Len(quality_cache) :
           quality_cache[k].key # measCall.before[1].key
    /\ Len(quality_cache) = 100

\* 0.0 <= x <= 1.0
InUnit(x) == FLe(FZero, x) /\ FLe(x, FOne)

\* C10 (SpecMeasure): whatever the original, the optimized string and the
\* segments are (empty strings, an empty segment list and an optimized
\* string longer than the original included), each of coherence,
\* completeness, relevance, compression_efficiency, semantic_preservation
\* and the overall score that measure_optimization_quality returns lies in
\* [0, 1].
C10_ScoresInUnit ==
    measCall.op = "measure_optimization_quality" =>
        LET m == measRet.value
        IN  /\ InUnit(m.coherence_score)
            /\ InUnit(m.completeness_score)
            /\ InUnit(m.relevance_score)
            /\ InUnit(m.compression_efficiency)
            /\ InUnit(m.semantic_preservation)
            /\ InUnit(m.overall_score)

\* C27 (SpecMeasure): measure_optimization_quality returns, for given
\* original, optimized, segments and target_model, the five scores and the
\* overall score a measurer with an empty cache returns for them, whatever
\* calls were made before.
C27_CacheTransparent ==
    measCall.op = "measure_optimization_quality" =>
        [measRet.value EXCEPT !.execution_time_ms = 0]
            = [ScoresOf[measCall.args] EXCEPT !.execution_time_ms = 0]

---------------------------------------------------------------------------
(* The specification of the optimizer *)

InitOptSpec ==
    InitOpt /\ StoreIdle /\ MeasureIdle /\ LiveIdle /\ LearnIdle /\ SessionIdle

SpecOpt == InitOptSpec /\ [][NextOpt]_vars

---------------------------------------------------------------------------
(* Claims about the optimizer, checked under SpecOpt *)

\* C1: for every list of segments and every max_length >= 0, the string
\* optimize_context returns is at most max_length + 3 characters long, the
\* newlines that join the selected segments counted.
C1_SelectedWithinBudget ==
    (optCall.op = "optimize_context" /\ optCall.max_length >= 0)
        => Len(optRet.content) <= optCall.max_length + 3

\* C2: whenever original_length > max_length, the OptimizedContext that
\* optimize_handoff returns has optimized_length <= max_length.
C2_HandoffWithinBudget ==
    (/\ optCall.op = "optimize_handoff"
     /\ optRet.status = "ok"
     /\ optRet.original_length > optCall.max_length)
        => optRet.optimized_length <= optCall.max_length

\* optimize_context was called with max_length m and one segment of 200
\* characters and importance 1.0
C3_Case(m) ==
    /\ optCall.op = "optimize_context"
    /\ optCall.max_length = m
    /\ Len(optCall.segments) = 1
    /\ Len(optCall.segments[1].content) = 200
    /\ optCall.segments[1].importance_score = 10

\* C3 as stated: with max_length = 50 a single 200 character segment of
\* importance 1.0 comes back as its first 47 characters followed by "...".
C3_TruncatedAtFifty ==
    C3_Case(50)
        => optRet.content = SubSeq(optCall.segments[1].content, 1, 47) \o "..."

\* C3 as amended: with max_length = 50 the single 200 character segment
\* yields the empty string, since the 50 characters left are not more than
\* 100; with max_length = 150 it yields its first 147 characters followed
\* by "...", 150 characters in all.
C3_NothingAtFifty ==
    /\ C3_Case(50) => optRet.content = ""
    /\ C3_Case(150) =>
          /\ optRet.content = SubSeq(optCall.segments[1].content, 1, 147) \o "..."
          /\ Len(optRet.content) = 150

C3_Witness == C3_Case(50) /\ optRet.status = "ok"

\* C4: optimize_handoff with a target backend that is not a known backend
\* never raises, and returns what it returns for the default backend; this
\* holds for every engine.
C4_UnknownTargetFallsBack ==
    (optCall.op = "optimize_handoff" /\ lower(optCall.target_model) \notin ModelType)
        => /\ optRet.status = "ok"
           /\ optRet = optimize_handoff(optCall.engine, optCall.conversation,
                                        "claude", "local", optCall.max_length)

\* the lines of a transcript that are not blank
NonBlankLines(conversation) == SelectSeq(split(conversation), has_text)

\* C5: the contents of the segments of a transcript, joined in order by
\* newlines, are the transcript's non-blank lines joined by newlines; no
\* segment is empty, every line of a segment has the segment's category, and
\* adjacent segments differ in category.
C5_SegmentsReconstruct ==
    optCall.op = "segment_conversation" =>
        LET segs == optRet.segments
        IN  /\ join([i \in 1..Len(segs) |-> segs[i].content])
                    = join(NonBlankLines(optCall.conversation))
            /\ \A i \in 1..Len(segs) :
                    /\ segs[i].content # ""
                    /\ \A l \in 1..Len(split(segs[i].content)) :
                          classify(optCall.engine, split(segs[i].content)[l])
                              = segs[i].segment_type
            /\ \A i \in 1..(Len(segs) - 1) :
                    segs[i].segment_type # segs[i + 1].segment_type

C5_Witness ==
    /\ optCall.op = "segment_conversation"
    /\ Len(optRet.segments) >= 2
    /\ \E i \in 1..Len(split(optCall.conversation)) :
            ~has_text(split(optCall.conversation)[i])

\* the segments optimize_handoff selects from, most important first
C6_Ranked ==
    sorted_segments(
        apply_weights(segment_conversation(optCall.engine, optCall.conversation),
                      TargetModelEnum(optCall.engine, optCall.target_model)))

\* C6: when len(conversation) <= max_length, optimize_handoff drops and
\* truncates nothing: its content is every segment's whole content, joined
\* by newlines in importance order.
C6_ShortInputKeptWhole ==
    (/\ optCall.op = "optimize_handoff"
     /\ optRet.status = "ok"
     /\ Len(optCall.conversation) <= optCall.max_length)
        => optRet.content = join([i \in 1..Len(C6_Ranked) |-> C6_Ranked[i].content])

C6_Witness ==
    /\ optCall.op = "optimize_handoff"
    /\ optRet.status = "ok"
    /\ Len(optCall.conversation) = optCall.max_length
    /\ Len(C6_Ranked) >= 2
    /\ C6_Ranked[1].importance_score > C6_Ranked[2].importance_score

\* C13: classify_segment checks the keyword groups in the order STRATEGIC,
\* DEBUG, IMPLEMENTATION, and answers CHAT when none matches, whatever the
\* case of the letters: a line with a strategic keyword is STRATEGIC
\* whatever else it contains, and a line with a debug keyword and no
\* strategic keyword is DEBUG whatever implementation keywords it contains.
C13_ClassifyPriority ==
    optCall.op = "classify_segment" =>
        LET has(kws) == \E kw \in kws :
                            Contains(lower(optCall.conversation), kw)
            strategic == has(strategic_keywords(optCall.engine))
            debug == has(debug_keywords(optCall.engine))
            impl == has(impl_keywords(optCall.engine))
        IN  /\ strategic => optRet.segment_type = STRATEGIC
            /\ (debug /\ ~strategic) => optRet.segment_type = DEBUG
            /\ (impl /\ ~debug /\ ~strategic) =>
                   optRet.segment_type = IMPLEMENTATION
            /\ (~impl /\ ~debug /\ ~strategic) => optRet.segment_type = CHAT

\* a line in capitals with a strategic, a debug and an implementation
\* keyword was classified
C13_Witness ==
    /\ optCall.op = "classify_segment"
    /\ optCall.conversation = "STRATEGY bug code"
    /\ optRet.segment_type = STRATEGIC

\* C14: every classifier of the repository classifies "def foo(): pass" as
\* IMPLEMENTATION, "Getting a traceback on this function" as DEBUG and
\* "thanks, that helps" as CHAT.
C14_ExampleLines ==
    optCall.op = "classify_segment" =>
        /\ optCall.conversation = "def foo(): pass" =>
               optRet.segment_type = IMPLEMENTATION
        /\ optCall.conversation = "Getting a traceback on this function" =>
               optRet.segment_type = DEBUG
        /\ optCall.conversation = "thanks, that helps" =>
               optRet.segment_type = CHAT

\* the segments of the call in the order the claims give them: by
\* importance, the more important first, and by place in the list among
\* segments of equal importance
C19_Before(segments, i, j) ==
    \/ segments[i].importance_score > segments[j].importance_score
    \/ /\ segments[i].importance_score = segments[j].importance_score
       /\ i < j

C19_Ordered(segments) ==
    [k \in 1..Len(segments) |->
        segments[CHOOSE i \in 1..Len(segments) :
                     Cardinality({j \in 1..Len(segments) :
                                     C19_Before(segments, j, i)}) = k - 1]]

RECURSIVE C19_Length(_, _)
\* the characters of the first k segments of a list
C19_Length(ordered, k) ==
    IF k = 0 THEN 0 ELSE Len(ordered[k].content) + C19_Length(ordered, k - 1)

\* how many segments at the head of the ordered list fit the budget whole
C19_Whole(ordered, max_length) ==
    CHOOSE k \in 0..Len(ordered) :
        /\ C19_Length(ordered, k) <= max_length
        /\ k < Len(ordered) => C19_Length(ordered, k + 1) > max_length

\* C19: optimize_context stops at the first segment, in importance order,
\* that does not fit what is left of the budget: the output is the segments
\* before it, followed by its first (remaining - 3) characters and "..."
\* only if remaining > 100; no segment after it appears in the output, even
\* one that would fit.
C19_StopsAtFirstOverflow ==
    (optCall.op = "optimize_context" /\ optCall.max_length >= 0) =>
        LET ordered == C19_Ordered(optCall.segments)
            whole == C19_Whole(ordered, optCall.max_length)
            remaining == optCall.max_length - C19_Length(ordered, whole)
            kept == [k \in 1..whole |-> ordered[k].content]
            cut == SubSeq(ordered[whole + 1].content, 1, remaining - 3)
                       \o "..."
        IN  optRet.content =
                IF whole = Len(ordered) THEN join(kept)
                ELSE IF remaining > 100 THEN join(Append(kept, cut))
                ELSE join(kept)

\* a segment overflowed, was cut, and a segment after it that would have
\* fitted was left out
C19_Witness ==
    /\ optCall.op = "optimize_context"
    /\ LET ordered == C19_Ordered(optCall.segments)
           whole == C19_Whole(ordered, optCall.max_length)
           remaining == optCall.max_length - C19_Length(ordered, whole)
       IN  /\ whole + 1 < Len(ordered)
           /\ remaining > 100
           /\ Len(ordered[whole + 2].content) <= remaining
           /\ Len(optRet.content) = optCall.max_length

\* C20: in the output of optimize_context the selected segments appear in
\* non-increasing order of importance, and segments of equal importance in
\* the order they had in the list: the output is some number of segments
\* from the head of that order, possibly followed by one cut segment.
C20_SelectedInRankOrder ==
    optCall.op = "optimize_context" =>
        LET ordered == C19_Ordered(optCall.segments)
            head(n) == [k \in 1..n |-> ordered[k].content]
        IN  \E n \in 0..Len(ordered) :
                \/ optRet.content = join(head(n))
                \/ /\ n < Len(ordered)
                   /\ \E m \in 0..Len(ordered[n + 1].content) :
                          optRet.content =
                              join(Append(head(n),
                                          SubSeq(ordered[n + 1].content, 1, m)
                                              \o "..."))

\* a less important segment came first in the list, two segments of equal
\* importance and different content followed, and all three were selected
C20_Witness ==
    /\ optCall.op = "optimize_context"
    /\ Len(optCall.segments) = 3
    /\ optCall.segments[1].importance_score
           < optCall.segments[2].importance_score
    /\ optCall.segments[2].importance_score
           = optCall.segments[3].importance_score
    /\ optCall.segments[2].content # optCall.segments[3].content
    /\ optRet.content = join(<<optCall.segments[2].content,
                               optCall.segments[3].content,
                               optCall.segments[1].content>>)

\* the weighted segments of the optimize_handoff call made last
C21_Weighted ==
    apply_weights(segment_conversation(optCall.engine, optCall.conversation),
                  TargetModelEnum(optCall.engine, optCall.target_model))

\* C21: the quality_score optimize_handoff returns is the number of
\* STRATEGIC and IMPLEMENTATION segments the selection appended in full,
\* divided by the number of such segments, and 1.0 when there are none: a
\* segment that was cut or left out is not counted.
C21_QualityCountsWholeSegments ==
    (optCall.op = "optimize_handoff" /\ optRet.status = "ok"
     /\ optCall.max_length >= 0) =>
        LET ordered == C19_Ordered(C21_Weighted)
            whole == C19_Whole(ordered, optCall.max_length)
            important == {k \in 1..Len(ordered) :
                            ordered[k].segment_type \in ImportantTypes}
            in_full == {k \in important : k <= whole}
        IN  IF important = {}
            THEN FEq(optRet.quality_score, FOne)
            ELSE FEq(optRet.quality_score,
                     Frac(Cardinality(in_full), Cardinality(important)))

\* C25: optimize_handoff never returns more characters than it was given.
C25_NeverLonger ==
    (optCall.op = "optimize_handoff" /\ optRet.status = "ok") =>
        /\ optRet.optimized_length <= optRet.original_length
        /\ optRet.original_length > 0 => FLe(optRet.compression_ratio, FOne)

\* a conversation with a blank line, cut by the "..." marker
C25_Witness ==
    /\ optCall.op = "optimize_handoff"
    /\ optRet.status = "ok"
    /\ Contains(optCall.conversation, "\n \n")
    /\ Contains(optRet.content, "...")
    /\ optRet.optimized_length < optRet.original_length

---------------------------------------------------------------------------
(* The specification of the live context manager *)

InitLiveSpec ==
    OptIdle /\ StoreIdle /\ MeasureIdle /\ InitLive /\ LearnIdle /\ SessionIdle

SpecLive == InitLiveSpec /\ [][NextLive]_vars

---------------------------------------------------------------------------
(* Claims about the live context manager, checked under SpecLive *)

\* C11: switch_model on a session id that was never started fails with a
\* not-found error (the code's ValueError) and creates nothing: the known
\* sessions and the state of each are after the call what they were before.
C11_SwitchUnknownFails ==
    (/\ liveCall.op = "switch_model"
     /\ liveCall.session_id \notin DOMAIN liveCall.before)
        => /\ liveRet.status = "ValueError"
           /\ conversations = liveCall.before

\* switch_model was called for a session that was not started while
\* another session was
C11_Witness ==
    /\ liveCall.op = "switch_model"
    /\ liveCall.session_id \notin DOMAIN liveCall.before
    /\ DOMAIN liveCall.before # {}
    /\ liveRet.status = "ValueError"

\* C12: add_message and get_current_context on a session id that was not
\* started start the session only when the caller names a backend; without
\* one they fail with a not-found error and no session is created.
C12_UnknownNeedsBackend ==
    (/\ liveCall.op \in {"add_message", "get_current_context"}
     /\ liveCall.session_id \notin DOMAIN liveCall.before)
        => LET named == /\ liveCall.op = "add_message"
                        /\ liveCall.given[3] # None
           IN  /\ named => liveCall.session_id \in DOMAIN conversations
               /\ ~named =>
                     /\ liveRet.status \notin {"ok", "none"}
                     /\ liveCall.session_id \notin DOMAIN conversations

\* C18: every optimize-and-replace step is atomic with respect to failure
\* or interruption of the optimization: when the optimizer call of a step
\* of switch_model or of _auto_optimize_context does not complete (it
\* raises), the call ends there and the session's context_buffer,
\* current_model and total_tokens_estimate are what they were before the
\* step.
C18_OptimizeStepAtomic ==
    (/\ liveCall.op \in {"switch_model", "add_message", "get_current_context"}
     /\ liveCall.optimize \notin {"ok", "none"})
        => LET state == conversations[liveCall.session_id]
               before == liveCall.step_before
           IN  /\ liveRet.status = liveCall.optimize
               /\ state.context_buffer = before.context_buffer
               /\ state.current_model = before.current_model
               /\ state.total_tokens_estimate = before.total_tokens_estimate

\* switch_model on a session with a context to hand over ended in the
\* optimizer's failure
C18_Witness ==
    /\ liveCall.op = "switch_model"
    /\ liveCall.optimize \in {"ValueError", "KeyboardInterrupt"}
    /\ liveCall.session_id \in DOMAIN liveCall.before
    /\ liveCall.before[liveCall.session_id].context_buffer # ""
    /\ liveCall.given[1] # liveCall.before[liveCall.session_id].current_model

\* the session of the call made last, as the call left it
C22_After == conversations[liveCall.session_id]

\* the call made last is an add_message that returned, on a manager whose
\* max_context_length is at most its optimization_threshold as with the
\* defaults, for a session of a known backend, and the message took the
\* estimate over the threshold
C22_Case ==
    /\ liveCall.op = "add_message"
    /\ liveRet.status = "ok"
    /\ 0 <= liveConfig.max_context_length
    /\ liveConfig.max_context_length <= liveConfig.optimization_threshold
    /\ liveCall.step_before.current_model \in ModelType
    /\ liveCall.step_before.total_tokens_estimate
           > liveConfig.optimization_threshold

C23_SwitchPostState ==
    (liveCall.op = "switch_model" /\ liveRet.status = "ok") =>
        LET before == liveCall.before[liveCall.session_id]
            after == conversations[liveCall.session_id]
            n == Len(before.messages)
        IN  /\ after.current_model = liveCall.given[1]
            /\ Len(after.messages) = n + 1
            /\ SubSeq(after.messages, 1, n) = before.messages
            /\ after.messages[n + 1].role = "system"
            /\ after.messages[n + 1].model = liveCall.given[1]
            /\ after.context_buffer =
                   liveRet.value \o "\nsystem: " \o after.messages[n + 1].content

\* C26: an add_message that returns with a context_buffer of more than
\* four times optimization_threshold characters has run the in-place
\* optimize during the call.
C26_BufferNeverPastThreshold ==
    (liveCall.op = "add_message" /\ liveRet.status = "ok"
     /\ Len(C22_After.context_buffer) \div TOKEN_CHARS
            > liveConfig.optimization_threshold) =>
        liveCall.optimize = "ok"

---------------------------------------------------------------------------
(* The specification of the analytics, and the claims about it *)

InitLearnSpec ==
    OptIdle /\ StoreIdle /\ MeasureIdle /\ LiveIdle /\ InitLearn /\ SessionIdle

SpecLearn == InitLearnSpec /\ [][NextLearn]_vars

\* C24 (SpecLearn): whenever suggest_weight_adjustments recommends weights,
\* which it does for a mean quality below 0.8, the reason it gives reports
\* the low quality score, also when it recommends increase_weights_by for
\* a mean compression ratio below 0.3 in the same result.
C24_ReasonForEachRecommendation ==
    (learnCall.op = "suggest_weight_adjustments"
     /\ "recommended_weights" \in DOMAIN learnRet.value) =>
        /\ "reason" \in DOMAIN learnRet.value
        /\ Contains(learnRet.value.reason, "Quality score")

\* C28 (SpecLearn): generate_improvement_plan returns a plan and raises
\* nothing, whatever events the store holds.
C28_PlanNeverRaises ==
    learnCall.op = "generate_improvement_plan" => learnRet.status = "ok"

---------------------------------------------------------------------------
(* The specifications of the CLI context manager and of the service *)

InitCliSpec ==
    OptIdle /\ MeasureIdle /\ LiveIdle /\ InitStore /\ LearnIdle /\ InitCli

SpecCli == InitCliSpec /\ [][NextCli]_vars

InitServiceSpec ==
    OptIdle /\ MeasureIdle /\ LiveIdle /\ InitStore /\ LearnIdle /\ InitService

SpecService == InitServiceSpec /\ [][NextService]_vars

\* C29: when a BasicCLIContextManager constructed afresh starts the session
\* the earlier manager had started, its current_context and current_model
\* are exactly the ones the earlier manager held after its last call, also
\* when that manager switched the model while its context was empty
C29_FreshManagerRestores ==
    (/\ sessCall.op = "start_session"
     /\ sessCall.fresh
     /\ sessCall.held.current_session = sessCall.session_id)
    => /\ context_manager.current_context = sessCall.held.current_context
       /\ context_manager.current_model = sessCall.held.current_model

\* C30: after switch_model_with_context(new_model) the model manager's
\* current backend is the one the context manager records: new_model for
\* both when the model manager accepts the name, the backends they had
\* for both when it rejects it
C30_Accepted ==
    ModelManager_switch_model(sessCall.model_manager_before,
                              sessCall.new_model).message
        \in {"Switched to Local model (Ollama)",
             "Switched to Claude (Anthropic)", "Switched to Gemini (Google)"}

====
